---- MODULE Spec2Model ----
(***************************************************************************)
(* Rule evaluation engine of the Azure migration analyzer                  *)
(* (backend/src/engine.ts) and the /api/analyze handler that delivers its  *)
(* results.                                                                *)
(*                                                                         *)
(* JavaScript strings are sequences of one-character strings, so that      *)
(* toLowerCase, startsWith, endsWith, slice, indexing, split and includes  *)
(* are computed character by character.  JavaScript values are tagged      *)
(* records [t, v]; objects are functions from keys (strings) to values.    *)
(***************************************************************************)
EXTENDS Integers, Sequences, FiniteSets, TLC

VARIABLES
    loaded,       \* the engine module has been imported (rulesData is built)
    tenantRules,  \* rules.json
    rgRules,      \* rules-rg.json
    subRules,     \* rules-sub.json
    regionRules,  \* rules-region.json
    rulesData,    \* engine.ts: const rulesData
    evalCall,     \* the latest evaluateRule call: arguments and outcome
    lastCall,     \* the latest analyzeResource call: arguments and outcome
    firstCall,    \* the first analyzeResource call of the process
    ncalls,       \* number of analyzeResource calls made so far
    response,     \* the latest /api/analyze exchange
    harnessSource, \* which of the two runIntegrationTest sources is built
    csv,          \* azure-move-matrix.csv: whether it exists, and its lines
    run,          \* the conformance run: phase, logicResult, linksToCheck, linkResult
    inflight,     \* the link checks of the current chunk, one per promise
    reply,        \* the response to GET /api/admin/run-test
    chunks,       \* the chunk loop over a long list of links, its checks counted
    app,          \* App.tsx: the state of the dashboard component
    fetches       \* the /api/resource-groups requests of the dashboard not yet answered

harnessVars == <<harnessSource, csv, run, inflight, reply, chunks>>

appVars == <<app, fetches>>

vars == <<loaded, tenantRules, rgRules, subRules, regionRules, rulesData,
          evalCall, lastCall, firstCall, ncalls, response, harnessVars, appVars>>

corpusVars == <<loaded, tenantRules, rgRules, subRules, regionRules, rulesData>>

-----------------------------------------------------------------------------
(* Bounds of the model *)

MaxTypeLen == 3      \* longest resource type string enumerated
MaxPrefixLen == 2    \* longest wildcard prefix / exact pattern enumerated
MaxCalls == 3        \* analyzeResource calls followed in one behaviour
MaxResources == 1    \* resources returned by the Resource Graph query

-----------------------------------------------------------------------------
(* JavaScript values *)

Undefined == [t |-> "undefined", v |-> <<>>]
Null == [t |-> "null", v |-> <<>>]
Str(s) == [t |-> "string", v |-> s]
Bool(b) == [t |-> "boolean", v |-> b]
Num(n) == [t |-> "number", v |-> n]
Arr(a) == [t |-> "array", v |-> a]
Obj(f) == [t |-> "object", v |-> f]
EmptyObj == Obj(<<>>)

IsNullish(x) == x.t = "undefined" \/ x.t = "null"

\* ToBoolean: undefined, null, '', 0 and false are falsy
Truthy(x) ==
    CASE x.t = "undefined" -> FALSE
      [] x.t = "null" -> FALSE
      [] x.t = "string" -> Len(x.v) > 0
      [] x.t = "number" -> x.v # 0
      [] x.t = "boolean" -> x.v
      [] OTHER -> TRUE

\* a || b
Or(a, b) == IF Truthy(a) THEN a ELSE b

Digits == <<"0", "1", "2", "3", "4", "5", "6", "7", "8", "9">>

kLength == <<"l", "e", "n", "g", "t", "h">>

\* the 0-based index a property key denotes, or -1
indexOf(key) ==
    IF Len(key) = 1 /\ \E d \in 1..Len(Digits) : Digits[d] = key[1]
    THEN (CHOOSE d \in 1..Len(Digits) : Digits[d] = key[1]) - 1
    ELSE -1

\* obj[key] for a value that is not null or undefined: own properties of
\* objects, elements and length of arrays and strings
Get(obj, key) ==
    CASE obj.t = "object" -> IF key \in DOMAIN obj.v THEN obj.v[key] ELSE Undefined
      [] obj.t = "array" ->
            IF key = kLength THEN [t |-> "number", v |-> Len(obj.v)]
            ELSE IF indexOf(key) + 1 \in 1..Len(obj.v) THEN obj.v[indexOf(key) + 1]
            ELSE Undefined
      [] obj.t = "string" ->
            IF key = kLength THEN [t |-> "number", v |-> Len(obj.v)]
            ELSE IF indexOf(key) + 1 \in 1..Len(obj.v)
                 THEN [t |-> "string", v |-> <<obj.v[indexOf(key) + 1]>>]
            ELSE Undefined
      [] OTHER -> Undefined

-----------------------------------------------------------------------------
(* String operations *)

UpperChars ==
    <<"A", "B", "C", "D", "E", "F", "G", "H", "I", "J", "K", "L", "M",
      "N", "O", "P", "Q", "R", "S", "T", "U", "V", "W", "X", "Y", "Z">>
LowerChars ==
    <<"a", "b", "c", "d", "e", "f", "g", "h", "i", "j", "k", "l", "m",
      "n", "o", "p", "q", "r", "s", "t", "u", "v", "w", "x", "y", "z">>

\* the lower-case letter of each upper-case letter
LowerOf ==
    [c \in {UpperChars[i] : i \in 1..Len(UpperChars)} |->
        LowerChars[CHOOSE i \in 1..Len(UpperChars) : UpperChars[i] = c]]

LowerChar(c) == IF c \in DOMAIN LowerOf THEN LowerOf[c] ELSE c

toLowerCase(s) == [i \in 1..Len(s) |-> LowerChar(s[i])]

startsWith(s, p) == Len(p) <= Len(s) /\ SubSeq(s, 1, Len(p)) = p

endsWith(s, p) == Len(p) <= Len(s) /\ SubSeq(s, Len(s) - Len(p) + 1, Len(s)) = p

includes(s, p) ==
    \E i \in 0..(Len(s) - Len(p)) : SubSeq(s, i + 1, i + Len(p)) = p

\* s.slice(0, -n)
sliceEnd(s, n) == SubSeq(s, 1, Len(s) - n)

\* s[i] with a 0-based index: undefined past the end
charAt(s, i) == IF i + 1 \in 1..Len(s) THEN Str(<<s[i + 1]>>) ELSE Undefined

RECURSIVE split(_, _)
\* s.split(sep) for a one-character separator
split(s, sep) ==
    IF \A i \in 1..Len(s) : s[i] # sep
    THEN <<s>>
    ELSE LET k == CHOOSE i \in 1..Len(s) :
                      s[i] = sep /\ \A j \in 1..(i - 1) : s[j] # sep
         IN  <<SubSeq(s, 1, k - 1)>> \o split(SubSeq(s, k + 1, Len(s)), sep)

RECURSIVE join(_)
\* Array.prototype.join(',') over already stringified elements
join(a) ==
    IF Len(a) = 0 THEN <<>>
    ELSE IF Len(a) = 1 THEN a[1]
    ELSE a[1] \o <<",">> \o join(Tail(a))

RECURSIVE String(_)
\* String(x)
String(x) ==
    CASE x.t = "undefined" -> <<"u", "n", "d", "e", "f", "i", "n", "e", "d">>
      [] x.t = "null" -> <<"n", "u", "l", "l">>
      [] x.t = "string" -> x.v
      [] x.t = "boolean" -> IF x.v THEN <<"t", "r", "u", "e">>
                            ELSE <<"f", "a", "l", "s", "e">>
      [] x.t = "number" -> <<Digits[x.v + 1]>>
      [] x.t = "array" ->
            join([i \in 1..Len(x.v) |->
                     IF IsNullish(x.v[i]) THEN <<>> ELSE String(x.v[i])])
      [] OTHER -> <<"[", "o", "b", "j", "e", "c", "t", " ",
                    "O", "b", "j", "e", "c", "t", "]">>

-----------------------------------------------------------------------------
(* Types of engine.ts *)

Scenarios == {"cross-tenant", "cross-subscription", "cross-resourcegroup", "cross-region"}

Severities == {"Blocker", "Critical", "Warning", "Info"}

\* property names of a resource record
kId == <<"i", "d">>
kName == <<"n", "a", "m", "e">>
kType == <<"t", "y", "p", "e">>
kResourceGroup == <<"r", "e", "s", "o", "u", "r", "c", "e", "G", "r", "o", "u", "p">>
kResourcegroup == <<"r", "e", "s", "o", "u", "r", "c", "e", "g", "r", "o", "u", "p">>
kLocation == <<"l", "o", "c", "a", "t", "i", "o", "n">>
kSubscriptionId == <<"s", "u", "b", "s", "c", "r", "i", "p", "t", "i", "o", "n", "I", "d">>
kSubscriptionid == <<"s", "u", "b", "s", "c", "r", "i", "p", "t", "i", "o", "n", "i", "d">>
kSubscriptionName == <<"s", "u", "b", "s", "c", "r", "i", "p", "t", "i", "o", "n", "N", "a", "m", "e">>
kSubscriptionname == <<"s", "u", "b", "s", "c", "r", "i", "p", "t", "i", "o", "n", "n", "a", "m", "e">>
kInjectedIssue == <<"i", "n", "j", "e", "c", "t", "e", "d", "I", "s", "s", "u", "e">>

\* outcome of a call: a returned value or a thrown TypeError
Return(x) == [threw |-> FALSE, value |-> x]
Throw == [threw |-> TRUE, value |-> FALSE]

-----------------------------------------------------------------------------
(* engine.ts: getNestedValue *)

\* one step of the reduce callback: (acc && acc[part] !== undefined) ? acc[part] : undefined
nestedStep(acc, part) ==
    IF Truthy(acc) /\ Get(acc, part).t # "undefined" THEN Get(acc, part) ELSE Undefined

RECURSIVE reduceParts(_, _)
reduceParts(acc, parts) ==
    IF Len(parts) = 0 THEN acc
    ELSE reduceParts(nestedStep(acc, Head(parts)), Tail(parts))

getNestedValue(obj, path) ==
    IF ~Truthy(path) THEN Undefined
    ELSE reduceParts(obj, split(path.v, "."))

-----------------------------------------------------------------------------
(* engine.ts: evaluateRule *)

\* lines 30-32: the scenario gate
scenarioMatchNoInherit(rule, scenario) == rule.scenario = scenario

scenarioMatchSymmetric(rule, scenario) ==
    \/ rule.scenario = scenario
    \/ {scenario, rule.scenario} = {"cross-resourcegroup", "cross-subscription"}

scenarioMatch(rule, scenario) ==
    IF rule.scenario = scenario THEN TRUE
    ELSE IF scenario = "cross-resourcegroup" /\ rule.scenario = "cross-subscription" THEN TRUE
    ELSE FALSE

\* lines 38-49: the type gate, over the lower-cased strings
typeMatchesNoBoundary(resType, ruleType) ==
    IF ruleType = <<"*">> \/ ruleType = resType THEN TRUE
    ELSE IF endsWith(ruleType, <<"/", "*">>)
         THEN startsWith(resType, sliceEnd(ruleType, 2))
         ELSE FALSE

\* the gate without the test for the bare wildcard
typeMatchesNoWildcard(resType, ruleType) ==
    IF ruleType = resType THEN TRUE
    ELSE IF endsWith(ruleType, <<"/", "*">>)
         THEN LET prefix == sliceEnd(ruleType, 2)
              IN  IF startsWith(resType, prefix)
                  THEN \/ Len(resType) = Len(prefix)
                       \/ charAt(resType, Len(prefix)) = Str(<<"/">>)
                  ELSE FALSE
         ELSE FALSE

typeMatches(resType, ruleType) ==
    IF ruleType = <<"*">> \/ ruleType = resType THEN TRUE
    ELSE IF endsWith(ruleType, <<"/", "*">>)
         THEN LET prefix == sliceEnd(ruleType, 2)
              IN  IF startsWith(resType, prefix)
                  THEN \/ Len(resType) = Len(prefix)
                       \/ charAt(resType, Len(prefix)) = Str(<<"/">>)
                  ELSE FALSE
         ELSE FALSE

\* lines 57-66: the operators, applied to a value that is neither undefined nor null
applyOperatorUnknownFires(condition, value) ==
    LET ruleVal == toLowerCase(String(condition.value))
        actualVal == toLowerCase(String(value))
    IN  CASE condition.operator = "eq" -> actualVal = ruleVal
          [] condition.operator = "neq" -> actualVal # ruleVal
          [] condition.operator = "contains" -> includes(actualVal, ruleVal)
          [] condition.operator = "notEmpty" -> value.t = "array" /\ Len(value.v) > 0
          [] OTHER -> TRUE

\* the comparison without toLowerCase
applyOperatorCaseSensitive(condition, value) ==
    LET ruleVal == String(condition.value)
        actualVal == String(value)
    IN  CASE condition.operator = "eq" -> actualVal = ruleVal
          [] condition.operator = "neq" -> actualVal # ruleVal
          [] condition.operator = "contains" -> includes(actualVal, ruleVal)
          [] condition.operator = "notEmpty" -> value.t = "array" /\ Len(value.v) > 0
          [] OTHER -> FALSE

\* notEmpty without Array.isArray: value.length > 0
applyOperatorLengthOnly(condition, value) ==
    LET ruleVal == toLowerCase(String(condition.value))
        actualVal == toLowerCase(String(value))
    IN  CASE condition.operator = "eq" -> actualVal = ruleVal
          [] condition.operator = "neq" -> actualVal # ruleVal
          [] condition.operator = "contains" -> includes(actualVal, ruleVal)
          [] condition.operator = "notEmpty" ->
                value.t \in {"array", "string"} /\ Len(value.v) > 0
          [] OTHER -> FALSE

applyOperator(condition, value) ==
    LET ruleVal == toLowerCase(String(condition.value))
        actualVal == toLowerCase(String(value))
    IN  CASE condition.operator = "eq" -> actualVal = ruleVal
          [] condition.operator = "neq" -> actualVal # ruleVal
          [] condition.operator = "contains" -> includes(actualVal, ruleVal)
          [] condition.operator = "notEmpty" -> value.t = "array" /\ Len(value.v) > 0
          [] OTHER -> FALSE

\* lines 53-68: the condition gate
conditionGateFailOpen(res, rule) ==
    IF rule.condition.present
    THEN LET value == getNestedValue(res, rule.condition.field)
         IN  IF IsNullish(value) THEN rule.condition.operator = "neq"
             ELSE applyOperator(rule.condition, value)
    ELSE TRUE

conditionGate(res, rule) ==
    IF rule.condition.present
    THEN LET value == getNestedValue(res, rule.condition.field)
         IN  IF IsNullish(value) THEN FALSE
             ELSE applyOperator(rule.condition, value)
    ELSE TRUE

evaluateRule(res, rule, scenario) ==
    IF ~scenarioMatch(rule, scenario) THEN Return(FALSE)
    \* res.type.toLowerCase() throws a TypeError unless res.type is a string
    ELSE IF IsNullish(res) \/ Get(res, kType).t # "string" THEN Throw
    ELSE IF ~typeMatches(toLowerCase(Get(res, kType).v), toLowerCase(rule.resourceType))
         THEN Return(FALSE)
    ELSE Return(conditionGate(res, rule))

-----------------------------------------------------------------------------
(* engine.ts: analyzeResource *)

\* line 73: const issues = [] is local to the call
leftoverIssues ==
    IF lastCall.called /\ ~lastCall.out.threw THEN lastCall.out.value.issues ELSE <<>>

newIssues == <<>>

\* lines 78-86: issues.push({ruleId, severity, ...}); the explanation fields
\* (message, impact, workaround, downtimeRisk, refLink) are copied unread
issueOf(rule) == [ruleId |-> rule.id, severity |-> rule.severity]

pushIssueOnce(issues, rule) ==
    IF \E i \in 1..Len(issues) : issues[i].ruleId = rule.id
    THEN issues ELSE Append(issues, issueOf(rule))

pushIssue(issues, rule) == Append(issues, issueOf(rule))

RECURSIVE forEachRule(_, _, _, _)
\* lines 76-88: rulesData.forEach; a TypeError thrown by evaluateRule ends the call
forEachRule(rules, res, scenario, issues) ==
    IF Len(rules) = 0 THEN Return(issues)
    ELSE LET fires == evaluateRule(res, Head(rules), scenario)
         IN  IF fires.threw THEN Throw
             ELSE forEachRule(Tail(rules), res, scenario,
                              IF fires.value THEN pushIssue(issues, Head(rules)) ELSE issues)

some(issues, severity) == \E i \in 1..Len(issues) : issues[i].severity = severity

\* lines 74, 90-93
reduceStatusCriticalFirst(issues) ==
    IF some(issues, "Critical") THEN "Critical"
    ELSE IF some(issues, "Blocker") THEN "Blocker"
    ELSE IF some(issues, "Warning") THEN "Warning"
    ELSE IF some(issues, "Info") THEN "Info"
    ELSE "Ready"

reduceStatusLastWins(issues) ==
    IF Len(issues) = 0 THEN "Ready" ELSE issues[Len(issues)].severity

reduceStatus(issues) ==
    IF some(issues, "Blocker") THEN "Blocker"
    ELSE IF some(issues, "Critical") THEN "Critical"
    ELSE IF some(issues, "Warning") THEN "Warning"
    ELSE IF some(issues, "Info") THEN "Info"
    ELSE "Ready"

UnknownId == <<"u", "n", "k", "n", "o", "w", "n", "-", "i", "d">>
UnknownResource == <<"U", "n", "k", "n", "o", "w", "n", " ", "R", "e", "s", "o", "u", "r", "c", "e">>
UnknownType == <<"u", "n", "k", "n", "o", "w", "n", "/", "t", "y", "p", "e">>
NoResourceGroup == <<"N", "o", " ", "R", "e", "s", "o", "u", "r", "c", "e", " ", "G", "r", "o", "u", "p">>
UnknownLocation == <<"u", "n", "k", "n", "o", "w", "n">>
UnknownSubId == <<"u", "n", "k", "n", "o", "w", "n", "-", "s", "u", "b", "-", "i", "d">>

\* lines 96-109: the identity fields with their defaults
identity(res) ==
    LET subId == Or(Or(Get(res, kSubscriptionId), Get(res, kSubscriptionid)), Str(UnknownSubId))
        subName == Or(Or(Get(res, kSubscriptionName), Get(res, kSubscriptionname)), subId)
    IN  [id |-> Or(Get(res, kId), Str(UnknownId)),
         name |-> Or(Get(res, kName), Str(UnknownResource)),
         type |-> Or(Get(res, kType), Str(UnknownType)),
         resourceGroup |-> Or(Or(Get(res, kResourceGroup), Get(res, kResourcegroup)),
                              Str(NoResourceGroup)),
         location |-> Or(Get(res, kLocation), Str(UnknownLocation)),
         subscriptionId |-> subId,
         subscriptionName |-> subName]

\* lines 72-110; reading a property of a null or undefined record throws
analyzeResource(res, scenario) ==
    LET collected == forEachRule(rulesData, res, scenario, newIssues)
    IN  IF collected.threw \/ IsNullish(res) THEN Throw
        ELSE Return([identity |-> identity(res),
                     migrationStatus |-> reduceStatus(collected.value),
                     issues |-> collected.value])

-----------------------------------------------------------------------------
(* Inputs *)

RECURSIVE Strings(_, _)
\* every string over an alphabet, up to a length
Strings(alphabet, n) ==
    IF n = 0 THEN {<<>>}
    ELSE Strings(alphabet, n - 1) \cup [1..n -> alphabet]

TypeAlphabet == {"a", "A", "/"}

\* 'sql/*', 'sql/s' and 'sqlv/s' stand for 'microsoft.sql/*',
\* 'microsoft.sql/servers' and 'microsoft.sqlvirtualmachines/servers'
SqlPattern == <<"s", "q", "l", "/", "*">>
SqlServers == <<"s", "q", "l", "/", "s">>
SqlVmServers == <<"s", "q", "l", "v", "/", "s">>

TypeStrings == Strings(TypeAlphabet, MaxTypeLen) \cup {SqlServers, SqlVmServers}

Patterns ==
    {<<"*">>, SqlPattern}
    \cup Strings(TypeAlphabet, MaxPrefixLen)
    \cup {p \o <<"/", "*">> : p \in Strings(TypeAlphabet, MaxPrefixLen)}

NoCondition == [present |-> FALSE, field |-> Undefined, operator |-> "", value |-> Undefined]

Condition(f, op, val) == [present |-> TRUE, field |-> f, operator |-> op, value |-> val]

Rule(id, type, scenario, condition, severity) ==
    [id |-> id, resourceType |-> type, scenario |-> scenario,
     condition |-> condition, severity |-> severity, refLink |-> Undefined]

\* the rule with a refLink
Linked(rule, refLink) == [rule EXCEPT !.refLink = Str(refLink)]

\* a record that has a type and nothing else
TypeOnly(type) == Obj(kType :> type)

\* the rules and records that exercise the type gate, under every requested scenario
TypeRecords == {TypeOnly(Str(s)) : s \in TypeStrings} \cup {TypeOnly(Null), EmptyObj}

TypeRules == {Rule("r", p, "cross-subscription", NoCondition, "Warning") : p \in Patterns}

\* the rules and records that exercise the scenario gate: every pair of scenarios
ScenarioRecords == {TypeOnly(Str(s)) : s \in {SqlServers, SqlVmServers, <<"A", "/", "a">>}}

ScenarioRules ==
    {Rule("r", p, sc, NoCondition, "Warning") :
        p \in {<<"*">>, SqlPattern, <<"a", "/", "*">>, <<"a", "/", "a">>}, sc \in Scenarios}

\* the rules and records that exercise the condition gate: 's' and 'n' stand
\* for the properties sku and name, 's.n' for the path 'sku.name'
kN == <<"n">>
kS == <<"s">>
AA == <<"a", "/", "a">>
sStd == <<"S", "t", "d">>
sstd == <<"s", "t", "d">>
sst == <<"s", "t">>

SkuValues ==
    {Undefined, Null, EmptyObj, Str(sStd), Num(0),
     Obj(kN :> Null), Obj(kN :> Undefined), Obj(kN :> Str(sStd)), Obj(kN :> Str(sstd)),
     Obj(kN :> Str(<<>>)), Obj(kN :> Num(0)), Obj(kN :> Bool(FALSE)), Obj(kN :> Bool(TRUE)),
     Obj(kN :> Arr(<<>>)), Obj(kN :> Arr(<<Str(sstd)>>)), Obj(kN :> EmptyObj)}

CondRecords ==
    {IF IsNullish(sku) /\ sku.t = "undefined" THEN TypeOnly(Str(AA))
     ELSE Obj(kType :> Str(AA) @@ kS :> sku) : sku \in SkuValues}
    \cup {Obj(kS :> Obj(kN :> Str(sStd))), Null}

CondFields ==
    {Undefined, Str(<<>>), Str(<<"s", ".", "n">>), Str(<<"s">>), Str(<<"x">>),
     Str(<<"s", ".", "n", ".", "x">>), Str(<<"s", ".", ".", "n">>), Str(<<"S", ".", "n">>)}

Operators == {"eq", "neq", "contains", "notEmpty", "gt"}

Operands == {Str(sstd), Str(sst), Str(<<>>), Undefined}

Conditions == {Condition(f, op, val) : f \in CondFields, op \in Operators, val \in Operands}

CondRules ==
    {Rule("r", p, sc, c, "Warning") :
        p \in {<<"*">>, <<"a", "/", "*">>, <<"a">>},
        sc \in {"cross-subscription", "cross-region"},
        c \in Conditions \cup {NoCondition}}

EvalInputs ==
    {<<res, rule>> : res \in TypeRecords, rule \in TypeRules}
    \cup {<<res, rule>> : res \in ScenarioRecords, rule \in ScenarioRules}
    \cup {<<res, rule>> : res \in CondRecords, rule \in CondRules}

-----------------------------------------------------------------------------
(* State *)

NoCall == [called |-> FALSE, pending |-> FALSE]

\* no conformance run has been asked for
NoCsv == [exists |-> FALSE, lines |-> <<>>]
NoRun == [phase |-> "idle"]
NoReply == [sent |-> FALSE]
NoChunks == [phase |-> "idle"]

\* the dashboard is not open
NoApp == [view |-> "closed"]

AppIdle == app = NoApp /\ fetches = <<>>

HarnessIdle ==
    /\ harnessSource = "verifyService.ts"
    /\ csv = NoCsv
    /\ run = NoRun
    /\ inflight = <<>>
    /\ reply = NoReply
    /\ chunks = NoChunks

Init ==
    /\ HarnessIdle
    /\ AppIdle
    /\ loaded = FALSE
    /\ tenantRules = <<>>
    /\ rgRules = <<>>
    /\ subRules = <<>>
    /\ regionRules = <<>>
    /\ rulesData = <<>>
    /\ evalCall = NoCall
    /\ lastCall = NoCall
    /\ firstCall = NoCall
    /\ ncalls = 0
    /\ response = NoCall

\* the state in which one evaluateRule call, with arguments drawn from the
\* inputs above, is about to be made
InitEval ==
    /\ HarnessIdle
    /\ AppIdle
    /\ loaded = FALSE
    /\ tenantRules = <<>>
    /\ rgRules = <<>>
    /\ subRules = <<>>
    /\ regionRules = <<>>
    /\ rulesData = <<>>
    /\ \E in \in EvalInputs, scenario \in Scenarios :
          evalCall = [called |-> FALSE, res |-> in[1], rule |-> in[2],
                      scenario |-> scenario, out |-> Return(FALSE)]
    /\ lastCall = NoCall
    /\ firstCall = NoCall
    /\ ncalls = 0
    /\ response = NoCall

\* the call of the exported evaluateRule
EvaluateRule ==
    /\ ~evalCall.called
    /\ evalCall' = [evalCall EXCEPT
                       !.called = TRUE,
                       !.out = evaluateRule(evalCall.res, evalCall.rule, evalCall.scenario)]
    /\ UNCHANGED <<appVars, corpusVars, lastCall, firstCall, ncalls, response, harnessVars>>

NextEval == EvaluateRule

SpecEval == InitEval /\ [][NextEval]_vars

-----------------------------------------------------------------------------
(* Claims about evaluateRule, checked under SpecEval *)

HasStringType(res) == ~IsNullish(res) /\ Get(res, kType).t = "string"

\* the record passes the rule's type gate and condition gate
PassesTypeAndCondition(res, rule) ==
    /\ HasStringType(res)
    /\ typeMatches(toLowerCase(Get(res, kType).v), toLowerCase(rule.resourceType))
    /\ conditionGate(res, rule)

Fired == evalCall.called /\ evalCall.out = Return(TRUE)
ReturnedFalse == evalCall.called /\ evalCall.out = Return(FALSE)

\* C1: scenario inheritance.  A rule scoped to 'cross-subscription', on a record
\* that passes its type gate and condition gate, fires when 'cross-resourcegroup'
\* or 'cross-subscription' is requested and returns false when 'cross-region'
\* or 'cross-tenant' is requested.
C1_ScenarioInheritance ==
    ( /\ evalCall.called
      /\ evalCall.rule.scenario = "cross-subscription"
      /\ PassesTypeAndCondition(evalCall.res, evalCall.rule) )
    => /\ evalCall.scenario \in {"cross-resourcegroup", "cross-subscription"}
            => evalCall.out = Return(TRUE)
       /\ evalCall.scenario \in {"cross-region", "cross-tenant"}
            => evalCall.out = Return(FALSE)

C1_Witness ==
    /\ Fired
    /\ evalCall.rule.scenario = "cross-subscription"
    /\ evalCall.scenario = "cross-resourcegroup"
    /\ evalCall.rule.condition.present
    /\ evalCall.rule.resourceType # <<"*">>

\* C2: inheritance is one-directional and unique.  On a record that passes the
\* type and condition gates the rule fires exactly when the rule scenario
\* equals the requested one or the pair is (rule 'cross-subscription',
\* requested 'cross-resourcegroup'); on any record it fires only then.
InheritingPair(ruleScenario, requested) ==
    \/ ruleScenario = requested
    \/ ruleScenario = "cross-subscription" /\ requested = "cross-resourcegroup"

C2_OnlySubToRg ==
    evalCall.called =>
        /\ Fired => InheritingPair(evalCall.rule.scenario, evalCall.scenario)
        /\ PassesTypeAndCondition(evalCall.res, evalCall.rule)
              => (Fired <=> InheritingPair(evalCall.rule.scenario, evalCall.scenario))
        /\ ~InheritingPair(evalCall.rule.scenario, evalCall.scenario) => ReturnedFalse

C2_Witness ==
    /\ ReturnedFalse
    /\ evalCall.rule.scenario = "cross-resourcegroup"
    /\ evalCall.scenario = "cross-subscription"
    /\ PassesTypeAndCondition(evalCall.res, evalCall.rule)

\* C3: wildcard prefix safety.  A rule whose pattern ends in '/*', with prefix P,
\* fires only on a resource type that starts with P (letter case ignored, as
\* in the whole type gate) and either has the length of P or has '/' right
\* after P; 'sql/*' fires on 'sql/s' and does not fire on 'sqlv/s'.
PrefixBoundary(type, pattern) ==
    LET P == toLowerCase(SubSeq(pattern, 1, Len(pattern) - 2))
        T == toLowerCase(type)
    IN  /\ Len(T) >= Len(P)
        /\ \A i \in 1..Len(P) : T[i] = P[i]
        /\ Len(T) = Len(P) \/ T[Len(P) + 1] = "/"

IsPrefixPattern(pattern) ==
    /\ Len(pattern) >= 2
    /\ pattern[Len(pattern) - 1] = "/"
    /\ pattern[Len(pattern)] = "*"

C3_WildcardPrefixSafety ==
    evalCall.called =>
        /\ (Fired /\ IsPrefixPattern(evalCall.rule.resourceType))
              => PrefixBoundary(Get(evalCall.res, kType).v, evalCall.rule.resourceType)
        /\ ( /\ evalCall.rule.resourceType = SqlPattern
             /\ InheritingPair(evalCall.rule.scenario, evalCall.scenario)
             /\ ~evalCall.rule.condition.present )
           => /\ Get(evalCall.res, kType) = Str(SqlServers) => Fired
              /\ Get(evalCall.res, kType) = Str(SqlVmServers) => ReturnedFalse

C3_Witness ==
    /\ ReturnedFalse
    /\ evalCall.rule.resourceType = SqlPattern
    /\ Get(evalCall.res, kType) = Str(SqlVmServers)
    /\ InheritingPair(evalCall.rule.scenario, evalCall.scenario)

\* C4: condition fail-closed.  When the rule declares a condition whose field
\* resolves to undefined or null in the record, evaluateRule never returns
\* true, whatever the operator, and returns false on every record whose type
\* is a string (a record without one makes the type gate throw first).
FieldAbsent(res, rule) ==
    rule.condition.present /\ IsNullish(getNestedValue(res, rule.condition.field))

RecognizedOperators == {"eq", "neq", "contains", "notEmpty"}

FieldPresent(res, rule) ==
    rule.condition.present /\ ~IsNullish(getNestedValue(res, rule.condition.field))

-----------------------------------------------------------------------------
(* The rule corpus: the four JSON files engine.ts imports *)

skuName == Str(<<"s", ".", "n">>)
APattern == <<"a", "/", "*">>

\* reference links: two that are fetched, one relative and one empty that are not
LinkT == <<"h", "t", "t", "p", ":", "t">>
LinkG == <<"h", "t", "t", "p", "s", ":", "g">>
LinkRelative == <<"/", "d", "o", "c", "s", "/", "s">>

TenantFiles ==
    {<<Linked(Rule("t1", <<"*">>, "cross-tenant", NoCondition, "Info"), LinkT),
       Rule("t2", AA, "cross-tenant", Condition(skuName, "eq", Str(sstd)), "Critical")>>}

RgFiles ==
    {<<>>,
     <<Linked(Rule("g1", APattern, "cross-resourcegroup", NoCondition, "Warning"), LinkG),
       Rule("m1", AA, "cross-resourcegroup", Condition(skuName, "eq", Str(sstd)), "Blocker")>>}

SubFiles ==
    {<<>>,
     <<Linked(Rule("s1", APattern, "cross-subscription", NoCondition, "Info"), LinkRelative),
       Rule("m1", AA, "cross-subscription", Condition(skuName, "eq", Str(sstd)), "Blocker")>>,
     <<Linked(Rule("s3", <<"*">>, "cross-subscription", NoCondition, "Critical"), <<>>),
       Rule("s4", AA, "cross-subscription", Condition(skuName, "eq", Str(sstd)), "Info")>>}

RegionFiles ==
    {<<>>,
     <<Rule("x1", <<"*">>, "cross-region", Condition(skuName, "contains", Str(sst)), "Critical"),
       Rule("x2", SqlPattern, "cross-region", NoCondition, "Warning"),
       Rule("x3", AA, "cross-region", NoCondition, "Info"),
       Rule("x4", AA, "cross-region", Condition(skuName, "eq", Str(sstd)), "Blocker")>>}

\* module load: lines 1-6
LoadCorpus ==
    /\ ~loaded
    /\ loaded' = TRUE
    /\ tenantRules' \in TenantFiles
    /\ rgRules' \in RgFiles
    /\ subRules' \in SubFiles
    /\ regionRules' \in RegionFiles
    /\ rulesData' = tenantRules' \o rgRules' \o subRules' \o regionRules'
    /\ UNCHANGED <<appVars, evalCall, lastCall, firstCall, ncalls, response, harnessVars>>

-----------------------------------------------------------------------------
(* Calls of analyzeResource *)

Sku(name) == Obj(kN :> name)

\* records for sequences of calls: a type (or none) and a SKU name (or none)
Records ==
    {TypeOnly(Str(AA)),
     TypeOnly(Str(SqlServers)),
     Obj(kType :> Str(AA) @@ kS :> Sku(Str(sStd))),
     Obj(kType :> Str(<<"A", "/", "A">>) @@ kS :> Sku(Str(sStd))),
     Obj(kType :> Str(AA) @@ kS :> Sku(Null)),
     Obj(kS :> Sku(Str(sStd)))}

\* a call of the exported analyzeResource; firstCall and ncalls observe the
\* history of calls, the cap on ncalls bounds the behaviours followed.  The
\* call reads res and rulesData and assigns to neither: resAfter is the record
\* as the caller finds it after the call.
AnalyzeResourceConsuming(res, scenario) ==
    /\ loaded
    /\ ncalls < MaxCalls
    /\ lastCall' = [called |-> TRUE, pending |-> FALSE, res |-> res, scenario |-> scenario,
                    resAfter |-> res, out |-> analyzeResource(res, scenario)]
    /\ firstCall' = IF ncalls = 0 THEN lastCall' ELSE firstCall
    /\ ncalls' = ncalls + 1
    /\ rulesData' = <<>>
    /\ UNCHANGED <<appVars, loaded, tenantRules, rgRules, subRules, regionRules, evalCall, response, harnessVars>>

AnalyzeResource(res, scenario) ==
    /\ loaded
    /\ ncalls < MaxCalls
    /\ lastCall' = [called |-> TRUE, pending |-> FALSE, res |-> res, scenario |-> scenario,
                    resAfter |-> res, out |-> analyzeResource(res, scenario)]
    /\ firstCall' = IF ncalls = 0 THEN lastCall' ELSE firstCall
    /\ ncalls' = ncalls + 1
    /\ UNCHANGED <<appVars, corpusVars, evalCall, response, harnessVars>>

NextAnalyze ==
    \/ LoadCorpus
    \/ \E res \in Records, scenario \in Scenarios : AnalyzeResource(res, scenario)

SpecAnalyze == Init /\ [][NextAnalyze]_vars

-----------------------------------------------------------------------------
(* Claims about the corpus, checked under SpecAnalyze *)

-----------------------------------------------------------------------------
(* The /api/analyze handler (verifyService.ts, lines 256-376) *)

\* the issue checkRegionAvailability attaches to a resource: it has no ruleId
injectedIssue == [ruleId |-> "", severity |-> "Blocker"]

\* lines 276-297: res.type.split('/') throws unless res.type is a string;
\* unsupported tells whether the provider map lists the type without the target region
checkOne(res, unsupported) ==
    IF IsNullish(res) \/ Get(res, kType).t # "string" THEN Throw
    ELSE IF unsupported
         THEN Return(Obj(res.v @@ (kInjectedIssue :> Obj(kN :> Str(<<"B">>)))))
         ELSE Return(res)

\* lines 256-298
checkRegionAvailability(resources, unsupported) ==
    LET checked == [i \in 1..Len(resources) |-> checkOne(resources[i], unsupported[i])]
    IN  IF \E i \in 1..Len(resources) : checked[i].threw THEN Throw
        ELSE Return([i \in 1..Len(resources) |-> checked[i].value])

\* the callback without line 350: the injected issue is put first and the
\* verdict of the engine kept
analyzeOneNoEscalation(r, selectedScenario) ==
    LET analysis == analyzeResource(r, selectedScenario)
    IN  IF analysis.threw THEN Throw
        ELSE LET injected == Truthy(Get(r, kInjectedIssue))
                 a == analysis.value
             IN  Return([identity |-> [a.identity EXCEPT
                                          !.resourceGroup = Get(r, kResourceGroup),
                                          !.subscriptionId = Get(r, kSubscriptionId),
                                          !.subscriptionName =
                                              Or(Get(r, kSubscriptionName),
                                                 Get(r, kSubscriptionId))],
                         migrationStatus |-> a.migrationStatus,
                         issues |-> IF injected THEN <<injectedIssue>> \o a.issues
                                    ELSE a.issues])

\* lines 344-359: the callback of rawResources.map
analyzeOne(r, selectedScenario) ==
    LET analysis == analyzeResource(r, selectedScenario)
    IN  IF analysis.threw THEN Throw
        ELSE LET injected == Truthy(Get(r, kInjectedIssue))
                 a == analysis.value
             IN  Return([identity |-> [a.identity EXCEPT
                                          !.resourceGroup = Get(r, kResourceGroup),
                                          !.subscriptionId = Get(r, kSubscriptionId),
                                          !.subscriptionName =
                                              Or(Get(r, kSubscriptionName),
                                                 Get(r, kSubscriptionId))],
                         migrationStatus |-> IF injected THEN "Blocker"
                                             ELSE a.migrationStatus,
                         issues |-> IF injected THEN <<injectedIssue>> \o a.issues
                                    ELSE a.issues])

count(details, status) ==
    Cardinality({i \in 1..Len(details) : details[i].migrationStatus = status})

\* lines 361-368
summaryOf(details) ==
    [total |-> Len(details),
     blockers |-> count(details, "Blocker"),
     critical |-> count(details, "Critical"),
     warnings |-> count(details, "Warning"),
     ready |-> count(details, "Ready")]

Reply(status, scenario, details) ==
    [status |-> status, scenario |-> scenario, details |-> details,
     summary |-> summaryOf(details)]

\* lines 302-376: the reply to a request; req.scenario is "" when the body has none
analyzeHandler(req) ==
    LET selectedScenario == IF req.scenario = "" THEN "cross-tenant" ELSE req.scenario
    IN  IF ~req.subscriptions THEN Reply(400, selectedScenario, <<>>)
        ELSE IF req.graphFails THEN Reply(500, selectedScenario, <<>>)
        ELSE LET checked == IF selectedScenario = "cross-region" /\ req.targetRegion
                            THEN checkRegionAvailability(req.raw, req.unsupported)
                            ELSE Return(req.raw)
             IN  IF checked.threw THEN Reply(500, selectedScenario, <<>>)
                 ELSE LET mapped == [i \in 1..Len(checked.value) |->
                                        analyzeOne(checked.value[i], selectedScenario)]
                      IN  IF \E i \in 1..Len(mapped) : mapped[i].threw
                          THEN Reply(500, selectedScenario, <<>>)
                          ELSE Reply(200, selectedScenario,
                                     [i \in 1..Len(mapped) |-> mapped[i].value])

-----------------------------------------------------------------------------
(* Single calls on records with any subset of the identity fields *)

IdKeys ==
    {kId, kName, kType, kLocation, kResourceGroup, kResourcegroup,
     kSubscriptionId, kSubscriptionid, kSubscriptionName, kSubscriptionname}

\* the lower-case spelling of a field is read only when the camel-case one is missing
IdKeySets ==
    {ks \in SUBSET IdKeys :
        /\ ~(kResourceGroup \in ks /\ kResourcegroup \in ks)
        /\ ~(kSubscriptionId \in ks /\ kSubscriptionid \in ks)
        /\ ~(kSubscriptionName \in ks /\ kSubscriptionname \in ks)}

\* every present field holds a string: the type is 'a/a', any other field its own name
IdValue(k) == IF k = kType THEN Str(AA) ELSE Str(k)

IdentityRecords ==
    {Obj([k \in ks \cup {kS} |-> IF k = kS THEN Sku(Str(sStd)) ELSE IdValue(k)]) :
        ks \in IdKeySets}

ApiKeySets ==
    {ks \in SUBSET {kType, kResourceGroup, kSubscriptionId, kSubscriptionName} :
        /\ kSubscriptionName \in ks => kSubscriptionId \in ks
        /\ kType \notin ks => ks = {}}

\* and one record of another sku, which no Blocker rule of the corpus matches
ApiRecords ==
    {Obj([k \in ks \cup {kS} |-> IF k = kS THEN Sku(Str(sStd)) ELSE IdValue(k)]) :
        ks \in ApiKeySets}
    \cup {Obj(kType :> Str(AA) @@ kS :> Sku(Str(sst)))}

RECURSIVE Lists(_, _)
\* every list over a set, up to a length
Lists(S, n) ==
    IF n = 0 THEN {<<>>}
    ELSE Lists(S, n - 1) \cup [1..n -> S]

\* what the Resource Graph query returns: resources, each with the outcome of
\* the provider lookup the region check would make for it
Inventories ==
    {[raw |-> [i \in 1..Len(l) |-> l[i][1]], unsupported |-> [i \in 1..Len(l) |-> l[i][2]]] :
        l \in Lists(ApiRecords \X BOOLEAN, MaxResources)}

Request(sc, subs, gf, tr, inv) ==
    [scenario |-> sc, subscriptions |-> subs, graphFails |-> gf, targetRegion |-> tr,
     raw |-> inv.raw, unsupported |-> inv.unsupported]

NoInventory == [raw |-> <<>>, unsupported |-> <<>>]

\* a request without subscriptions or whose query fails never sees an inventory
Requests ==
    {Request(sc, TRUE, FALSE, tr, inv) :
        sc \in Scenarios \cup {""}, tr \in BOOLEAN, inv \in Inventories}
    \cup {Request(sc, FALSE, FALSE, tr, NoInventory) : sc \in Scenarios \cup {""}, tr \in BOOLEAN}
    \cup {Request(sc, TRUE, TRUE, tr, NoInventory) : sc \in Scenarios \cup {""}, tr \in BOOLEAN}

NoRequest == [pending |-> FALSE, called |-> FALSE]

\* the state in which either one analyzeResource call or one /api/analyze
\* request, with arguments drawn from the inputs above, is about to be served
InitApi ==
    /\ HarnessIdle
    /\ AppIdle
    /\ loaded = FALSE
    /\ tenantRules = <<>>
    /\ rgRules = <<>>
    /\ subRules = <<>>
    /\ regionRules = <<>>
    /\ rulesData = <<>>
    /\ evalCall = NoCall
    /\ firstCall = NoCall
    /\ ncalls = 0
    /\ \/ /\ \E res \in IdentityRecords, scenario \in Scenarios :
                lastCall = [called |-> FALSE, pending |-> TRUE,
                            res |-> res, scenario |-> scenario]
          /\ response = NoRequest
       \/ /\ lastCall = NoCall
          /\ \E req \in Requests :
                response = [pending |-> TRUE, called |-> FALSE, req |-> req]

\* the pending analyzeResource call
AnalyzePending ==
    /\ lastCall.pending
    /\ ~lastCall.called
    /\ AnalyzeResource(lastCall.res, lastCall.scenario)

\* POST /api/analyze
ApiAnalyze ==
    /\ loaded
    /\ response.pending
    /\ ~response.called
    /\ response' = [pending |-> FALSE, called |-> TRUE, req |-> response.req,
                    reply |-> analyzeHandler(response.req)]
    /\ UNCHANGED <<appVars, corpusVars, evalCall, lastCall, firstCall, ncalls, harnessVars>>

NextApi == LoadCorpus \/ AnalyzePending \/ ApiAnalyze

SpecApi == InitApi /\ [][NextApi]_vars

-----------------------------------------------------------------------------
(* Claims about analyzeResource, checked under SpecAnalyze *)

Rank(severity) ==
    CASE severity = "Blocker" -> 4
      [] severity = "Critical" -> 3
      [] severity = "Warning" -> 2
      [] severity = "Info" -> 1
      [] OTHER -> 0

Returned(call) == call.called /\ ~call.out.threw

IssueSet(call) == {call.out.value.issues[i] : i \in 1..Len(call.out.value.issues)}

\* C5: verdict reduction.  The migrationStatus of a returned analysis is the
\* highest severity among its issues under Blocker > Critical > Warning > Info,
\* and it is 'Ready' exactly when the issue list is empty.
C5_VerdictReduction ==
    Returned(lastCall) =>
        LET issues == lastCall.out.value.issues
            status == lastCall.out.value.migrationStatus
        IN  /\ status = "Ready" <=> Len(issues) = 0
            /\ Len(issues) > 0 =>
                  /\ \E i \in 1..Len(issues) : issues[i].severity = status
                  /\ \A i \in 1..Len(issues) : Rank(issues[i].severity) <= Rank(status)

C5_Witness ==
    /\ Returned(lastCall)
    /\ lastCall.out.value.migrationStatus = "Blocker"
    /\ some(lastCall.out.value.issues, "Critical")
    /\ some(lastCall.out.value.issues, "Warning")

\* C6: severity monotonicity.  Of two analyses under the same scenario, the one
\* whose issue set contains the other's has a verdict at least as severe, under
\* Blocker > Critical > Warning > Info > Ready.
C6_SeverityMonotonicity ==
    ( /\ Returned(firstCall)
      /\ Returned(lastCall)
      /\ firstCall.scenario = lastCall.scenario
      /\ IssueSet(firstCall) \subseteq IssueSet(lastCall) )
    => Rank(lastCall.out.value.migrationStatus) >= Rank(firstCall.out.value.migrationStatus)

C6_Witness ==
    /\ Returned(firstCall)
    /\ Returned(lastCall)
    /\ firstCall.scenario = lastCall.scenario
    /\ firstCall.res # lastCall.res
    /\ IssueSet(firstCall) # {}
    /\ IssueSet(firstCall) \subseteq IssueSet(lastCall)
    /\ IssueSet(firstCall) # IssueSet(lastCall)
    /\ Rank(lastCall.out.value.migrationStatus) > Rank(firstCall.out.value.migrationStatus)

FiringRules(res, scenario) ==
    {i \in 1..Len(rulesData) : evaluateRule(res, rulesData[i], scenario) = Return(TRUE)}

C10_IssueListShape ==
    /\ loaded => rulesData = tenantRules \o rgRules \o subRules \o regionRules
    /\ Returned(lastCall) =>
          LET issues == lastCall.out.value.issues
              F == FiringRules(lastCall.res, lastCall.scenario)
          IN  /\ Len(issues) = Cardinality(F)
              /\ \A k \in 1..Len(issues) :
                    \E i \in F :
                        /\ Cardinality({j \in F : j <= i}) = k
                        /\ issues[k].ruleId = rulesData[i].id
                        /\ issues[k].severity = rulesData[i].severity

C10_Witness ==
    /\ Returned(lastCall)
    /\ LET issues == lastCall.out.value.issues
       IN  /\ \E k, l \in 1..Len(issues) : k < l /\ issues[k].ruleId = issues[l].ruleId
           /\ \E k, l \in 1..Len(issues) :
                 k < l /\ Rank(issues[k].severity) < Rank(issues[l].severity)
           /\ Len(issues) < Len(rulesData)

-----------------------------------------------------------------------------
(* Claims about totality and the identity defaults, checked under SpecApi *)

\* C8: totality.  Whatever identity fields and condition fields the record
\* lacks, and whatever the scenario, analyzeResource returns an analyzed
\* resource with a verdict and does not throw.
C8_Totality ==
    lastCall.called =>
        /\ ~lastCall.out.threw
        /\ lastCall.out.value.migrationStatus \in Severities \cup {"Ready"}

Absent(res, keys) == \A k \in keys : ~Truthy(Get(res, k))

IdentityFields ==
    {"id", "name", "type", "resourceGroup", "location", "subscriptionId", "subscriptionName"}

\* the defaults in the result of analyzeResource
EngineDefaults(res, id) ==
    /\ \A f \in IdentityFields : id[f].t # "undefined"
    /\ Absent(res, {kSubscriptionName, kSubscriptionname}) => id.subscriptionName = id.subscriptionId
    /\ Absent(res, {kResourceGroup, kResourcegroup}) => id.resourceGroup = Str(NoResourceGroup)
    /\ Absent(res, {kSubscriptionId, kSubscriptionid}) => id.subscriptionId = Str(UnknownSubId)
    /\ Absent(res, {kId}) => id.id = Str(UnknownId)
    /\ Absent(res, {kName}) => id.name = Str(UnknownResource)
    /\ Absent(res, {kType}) => id.type = Str(UnknownType)
    /\ Absent(res, {kLocation}) => id.location = Str(UnknownLocation)

\* the defaults in one entry of the details of the /api/analyze response
DeliveredDefaults(res, id) ==
    /\ \A f \in IdentityFields : id[f].t # "undefined"
    /\ Absent(res, {kSubscriptionName}) => id.subscriptionName = id.subscriptionId
    /\ Absent(res, {kResourceGroup}) => id.resourceGroup = Str(NoResourceGroup)

C9_EngineDefaults ==
    Returned(lastCall) => EngineDefaults(lastCall.res, lastCall.out.value.identity)

\* C9: identity defaults.  In the result of analyzeResource and in every entry
\* of the details of the /api/analyze response, an absent subscription name is
\* replaced by the subscription id, an absent resource group by 'No Resource
\* Group', every other absent identity field by its placeholder, and no
\* identity field is undefined.
C9_IdentityDefaults ==
    /\ C9_EngineDefaults
    /\ (response.called /\ response.reply.status = 200) =>
          \A i \in 1..Len(response.reply.details) :
              DeliveredDefaults(response.req.raw[i], response.reply.details[i].identity)

C9_EngineWitness ==
    /\ Returned(lastCall)
    /\ Len(lastCall.out.value.issues) > 0
    /\ Absent(lastCall.res, {kSubscriptionName, kSubscriptionname, kResourceGroup,
                             kResourcegroup, kId})
    /\ ~Absent(lastCall.res, {kSubscriptionid})

-----------------------------------------------------------------------------
(* verifyService.ts: the conformance harness.  Its loop over the reference
   rows exists in two forms: verifyService.ts (lines 87-167) checks the
   subscription and the region column of each row, unnamed/part_007 (lines
   89-211) the resource-group column as well. *)

\* the most data lines of a reference CSV, and the most links of a long link list
MaxRows == 2
MaxLinks == 41

HarnessSources == {"verifyService.ts", "part_007"}

Whitespace == {" ", "\t", "\r", "\n"}

RECURSIVE trimStart(_)
trimStart(s) == IF Len(s) > 0 /\ s[1] \in Whitespace THEN trimStart(Tail(s)) ELSE s

RECURSIVE trimEnd(_)
trimEnd(s) ==
    IF Len(s) > 0 /\ s[Len(s)] \in Whitespace THEN trimEnd(SubSeq(s, 1, Len(s) - 1)) ELSE s

\* String.prototype.trim
trim(s) == trimEnd(trimStart(s))

\* the mock's fixed fields
MockIdPrefix ==
    <<"/", "s", "u", "b", "s", "c", "r", "i", "p", "t", "i", "o", "n", "s", "/", "x",
      "x", "x", "/", "r", "e", "s", "o", "u", "r", "c", "e", "G", "r", "o", "u", "p",
      "s", "/", "t", "e", "s", "t", "/", "p", "r", "o", "v", "i", "d", "e", "r", "s",
      "/">>
MockIdSuffix == <<"/", "t", "e", "s", "t", "-", "r", "e", "s">>
MockName == <<"t", "e", "s", "t", "-", "r", "e", "s", "o", "u", "r", "c", "e">>
MockResourceGroup == <<"t", "e", "s", "t", "-", "r", "g">>
MockLocation == <<"w", "e", "s", "t", "e", "u", "r", "o", "p", "e">>
MockSubId == <<"s", "u", "b", "-", "1", "2", "3">>
MockSubName == <<"T", "e", "s", "t", " ", "S", "u", "b">>

\* 'p', 'i' and 'j' stand for properties, incremental and jobState, as 's'
\* and 'n' stand for sku and name; 'Std' stands for 'Standard' and 'Run' for
\* 'Running', so the keywords sniffed in the notes are 'std', 'inc' and 'run'
kP == <<"p">>
kI == <<"i">>
kJ == <<"j">>
sRun == <<"R", "u", "n">>
KeywordStandard == sstd
KeywordIncremental == <<"i", "n", "c">>
KeywordRunning == <<"r", "u", "n">>

\* lines 56-70 (part_007: 49-65, which adds subscriptionId and subscriptionName)
createMockResource(source, provider, type, conditionNotes) ==
    LET notes == toLowerCase(conditionNotes)
        sku == IF includes(notes, KeywordStandard) THEN Obj(kN :> Str(sStd)) ELSE EmptyObj
        incremental == IF includes(notes, KeywordIncremental)
                       THEN kI :> Bool(TRUE) ELSE <<>>
        jobState == IF includes(notes, KeywordRunning) THEN kJ :> Str(sRun) ELSE <<>>
        subscription == IF source = "part_007"
                        THEN kSubscriptionId :> Str(MockSubId)
                             @@ kSubscriptionName :> Str(MockSubName)
                        ELSE <<>>
    IN  Obj(kId :> Str(MockIdPrefix \o provider \o <<"/">> \o type \o MockIdSuffix)
            @@ kName :> Str(MockName)
            @@ kType :> Str(provider \o <<"/">> \o type)
            @@ kResourceGroup :> Str(MockResourceGroup)
            @@ kLocation :> Str(MockLocation)
            @@ subscription
            @@ kS :> sku
            @@ kP :> Obj(incremental @@ jobState))

\* lines 109 and 119 (part_007: 114, 135, 156): what the reference expects
expectsBlockExact(text) ==
    toLowerCase(text) = <<"n", "o">> \/ toLowerCase(text) = <<"p", "e", "n", "d", "i", "n", "g">>

expectsBlock(text) ==
    startsWith(toLowerCase(text), <<"n", "o">>) \/ toLowerCase(text) = <<"p", "e", "n", "d", "i", "n", "g">>

\* the tests made on a row, in order: the 0-based column that holds the
\* expectation, the scenario analyzed, and the labels of a failure
Tests(source) ==
    IF source = "verifyService.ts"
    THEN <<[col |-> 3, scenario |-> "cross-subscription", label |-> "Sub",
            expected |-> "Blocker"],
           [col |-> 4, scenario |-> "cross-region", label |-> "Region",
            expected |-> "Critical"]>>
    ELSE <<[col |-> 2, scenario |-> "cross-resourcegroup", label |-> "ResourceGroup",
            expected |-> "Blocker"],
           [col |-> 3, scenario |-> "cross-subscription", label |-> "Subscription",
            expected |-> "Blocker"],
           [col |-> 4, scenario |-> "cross-region", label |-> "Region",
            expected |-> "Critical"]>>

\* line 111 (part_007: 116, 137): resSub.migrationStatus !== 'Blocker', negated
blockDeliveredLenient(status) == status \in {"Blocker", "Critical"}

blockDelivered(status) == status = "Blocker"

\* line 121 (part_007: 158): neither !== 'Critical' nor !== 'Warning', negated
regionDeliveredWithBlocker(status) == status \in {"Blocker", "Critical", "Warning"}

regionDelivered(status) == status = "Critical" \/ status = "Warning"

delivered(test, status) ==
    IF test.scenario = "cross-region" THEN regionDelivered(status) ELSE blockDelivered(status)

\* the condition of the if of lines 111 and 121: the check fails
checkFailsSymmetric(expBlock, isDelivered) == expBlock # isDelivered

checkFails(expBlock, isDelivered) == expBlock /\ ~isDelivered

\* the verdict for the mock of one test; the mock has a string type, so
\* analyzeResource returns
mockVerdict(source, cols, test) ==
    LET provider == trim(cols[1])
        resType == trim(cols[2])
        mock == createMockResource(source, provider, resType, trim(cols[test.col + 1]))
    IN  analyzeResource(mock, test.scenario).value.migrationStatus

\* a failing test that is recorded but not added to total
runCheckUncounted(source, cols, i, test, logicResult) ==
    LET status == mockVerdict(source, cols, test)
        expBlock == expectsBlock(trim(cols[test.col + 1]))
    IN  IF checkFails(expBlock, delivered(test, status))
        THEN [logicResult EXCEPT
                 !.failed = @ + 1,
                 !.failures = Append(@, [row |-> i + 1,
                                         resource |-> trim(cols[1]) \o <<"/">> \o trim(cols[2]),
                                         scenario |-> test.label,
                                         expected |-> test.expected,
                                         got |-> status])]
        ELSE [logicResult EXCEPT !.passed = @ + 1, !.total = @ + 1]

\* lines 106-114 and 116-124: one test of row i (0-based index of the line)
runCheck(source, cols, i, test, logicResult) ==
    LET status == mockVerdict(source, cols, test)
        expBlock == expectsBlock(trim(cols[test.col + 1]))
    IN  IF checkFails(expBlock, delivered(test, status))
        THEN [logicResult EXCEPT
                 !.failed = @ + 1,
                 !.total = @ + 1,
                 !.failures = Append(@, [row |-> i + 1,
                                         resource |-> trim(cols[1]) \o <<"/">> \o trim(cols[2]),
                                         scenario |-> test.label,
                                         expected |-> test.expected,
                                         got |-> status])]
        ELSE [logicResult EXCEPT !.passed = @ + 1, !.total = @ + 1]

RECURSIVE runChecks(_, _, _, _, _)
runChecks(source, cols, i, tests, logicResult) ==
    IF Len(tests) = 0 THEN logicResult
    ELSE runChecks(source, cols, i, Tail(tests),
                   runCheck(source, cols, i, Head(tests), logicResult))

RECURSIVE forEachLine(_, _, _, _)
\* lines 97-127: for (let i = 1; i < lines.length; i++)
forEachLine(source, lines, i, logicResult) ==
    IF i >= Len(lines) THEN logicResult
    ELSE LET cols == split(lines[i + 1], ";")
         IN  forEachLine(source, lines, i + 1,
                         IF Len(cols) < 5 THEN logicResult
                         ELSE runChecks(source, cols, i, Tests(source), logicResult))

\* line 95: the lines of the file that are not blank
nonBlank(lines) == SelectSeq(lines, LAMBDA l : trim(l) # <<>>)

EmptyLogic == [passed |-> 0, failed |-> 0, total |-> 0, failures |-> <<>>]

\* lines 91-128: the logic section; a missing file leaves logicResult as
\* initialised (unnamed/part_006, lines 47-49, threw instead)
logicSectionStrict(source, file) ==
    IF file.exists THEN Return(forEachLine(source, nonBlank(file.lines), 1, EmptyLogic))
    ELSE Throw

logicSection(source, file) ==
    IF file.exists THEN Return(forEachLine(source, nonBlank(file.lines), 1, EmptyLogic))
    ELSE Return(EmptyLogic)

-----------------------------------------------------------------------------
(* verifyService.ts: the link section *)

CHUNK_SIZE == 20

RECURSIVE linksOfFile(_, _)
\* lines 137-141: rules.forEach, keeping the refLinks that start with 'http'
linksOfFile(filename, rules) ==
    IF Len(rules) = 0 THEN <<>>
    ELSE LET r == Head(rules)
         IN  (IF Truthy(r.refLink) /\ startsWith(r.refLink.v, <<"h", "t", "t", "p">>)
              THEN <<[url |-> r.refLink.v, file |-> filename, ruleId |-> r.id]>>
              ELSE <<>>)
             \o linksOfFile(filename, Tail(rules))

\* lines 17-22 and 135-143: Object.entries(rulesFiles), in insertion order
linksToCheck ==
    linksOfFile("rules.json", tenantRules)
    \o linksOfFile("rules-rg.json", rgRules)
    \o linksOfFile("rules-sub.json", subRules)
    \o linksOfFile("rules-region.json", regionRules)

\* lines 73-75: checkUrl issues the HEAD request and awaits it
startCheck(item) ==
    [item |-> item, requests |-> <<"HEAD">>, head |-> "pending", get |-> "none",
     settled |-> FALSE, valid |-> FALSE, status |-> ""]

\* lines 147-148: chunk = linksToCheck.slice(i, i + CHUNK_SIZE), and chunk.map
\* runs every callback up to its first await
startChunk(links, i) ==
    LET last == IF i + CHUNK_SIZE < Len(links) THEN i + CHUNK_SIZE ELSE Len(links)
        chunk == SubSeq(links, i + 1, last)
    IN  [k \in 1..Len(chunk) |-> startCheck(chunk[k])]

\* line 76: return { valid: true, status: response.status }
onHeadSuccess(check) ==
    [check EXCEPT !.head = "ok", !.settled = TRUE, !.valid = TRUE, !.status = "200"]

\* lines 77-79: the catch of the HEAD issues the GET request and awaits it
onHeadFailureNoFallback(check) ==
    [check EXCEPT !.head = "failed", !.settled = TRUE, !.valid = FALSE, !.status = "ERR"]

onHeadFailure(check) ==
    [check EXCEPT !.head = "failed", !.requests = Append(@, "GET"), !.get = "pending"]

\* line 80: return { valid: true, status: responseGet.status }
onGetSuccess(check) ==
    [check EXCEPT !.get = "ok", !.settled = TRUE, !.valid = TRUE, !.status = "200"]

\* lines 81-82: status is errGet.response?.status || 'ERR'
onGetFailure(check, status) ==
    [check EXCEPT !.get = "failed", !.settled = TRUE, !.valid = FALSE, !.status = status]

GetFailures == {"404", "ERR"}

\* lines 149-153: what the callback of chunk.map resolves to
resultOf(check) ==
    IF ~check.valid
    THEN [broken |-> TRUE, file |-> check.item.file, ruleId |-> check.item.ruleId,
          url |-> check.item.url, status |-> check.status]
    ELSE [broken |-> FALSE]

\* line 156: await Promise.all(promises)
allSettled(checks) == \A k \in 1..Len(checks) : checks[k].settled

RECURSIVE forEachResult(_, _)
\* lines 157-163: results.forEach
forEachResult(checks, linkResult) ==
    IF Len(checks) = 0 THEN linkResult
    ELSE LET r == resultOf(Head(checks))
         IN  forEachResult(Tail(checks),
                           IF r.broken
                           THEN [checked |-> linkResult.checked + 1,
                                 broken |-> linkResult.broken + 1,
                                 details |-> Append(linkResult.details,
                                                    [file |-> r.file, ruleId |-> r.ruleId,
                                                     url |-> r.url, status |-> r.status])]
                           ELSE [linkResult EXCEPT !.checked = @ + 1])

EmptyLinks == [checked |-> 0, broken |-> 0, details |-> <<>>]

\* line 166: return { logic: logicResult, links: linkResult }
reportOf(r) == [logic |-> r.logic, links |-> r.links]

-----------------------------------------------------------------------------
(* A conformance run, started by GET /api/admin/run-test *)

\* lines 379-384 (index.ts, 110-117): the handler calls the async
\* runIntegrationTest, which runs up to its first await (the logic section and
\* the HEAD requests of the first chunk) and returns a Promise; the handler does
\* not await it and passes it to res.json.  A Promise has no enumerable
\* property of its own, so the body sent is {}.
RunTest ==
    /\ loaded
    /\ run.phase = "idle"
    /\ LET logic == logicSection(harnessSource, csv)
           links == linksToCheck
       IN  IF logic.threw
           THEN /\ run' = [phase |-> "failed"]
                /\ inflight' = <<>>
           ELSE /\ run' = [phase |-> IF Len(links) = 0 THEN "done" ELSE "links",
                           logic |-> logic.value, linksToCheck |-> links, i |-> 0,
                           links |-> EmptyLinks]
                /\ inflight' = startChunk(links, 0)
    /\ reply' = [sent |-> TRUE, status |-> 200, body |-> EmptyObj]
    /\ UNCHANGED <<appVars, corpusVars, evalCall, lastCall, firstCall, ncalls, response,
                   harnessSource, csv, chunks>>

Checking(k) == run.phase = "links" /\ k \in 1..Len(inflight)

HeadSucceeds(k) ==
    /\ Checking(k)
    /\ inflight[k].head = "pending"
    /\ inflight' = [inflight EXCEPT ![k] = onHeadSuccess(@)]
    /\ UNCHANGED <<appVars, corpusVars, evalCall, lastCall, firstCall, ncalls, response,
                   harnessSource, csv, run, reply, chunks>>

\* a status of 400 or more, a transport error or the 5 s timeout
HeadFails(k) ==
    /\ Checking(k)
    /\ inflight[k].head = "pending"
    /\ inflight' = [inflight EXCEPT ![k] = onHeadFailure(@)]
    /\ UNCHANGED <<appVars, corpusVars, evalCall, lastCall, firstCall, ncalls, response,
                   harnessSource, csv, run, reply, chunks>>

GetSucceeds(k) ==
    /\ Checking(k)
    /\ inflight[k].get = "pending"
    /\ inflight' = [inflight EXCEPT ![k] = onGetSuccess(@)]
    /\ UNCHANGED <<appVars, corpusVars, evalCall, lastCall, firstCall, ncalls, response,
                   harnessSource, csv, run, reply, chunks>>

GetFails(k, status) ==
    /\ Checking(k)
    /\ inflight[k].get = "pending"
    /\ inflight' = [inflight EXCEPT ![k] = onGetFailure(@, status)]
    /\ UNCHANGED <<appVars, corpusVars, evalCall, lastCall, firstCall, ncalls, response,
                   harnessSource, csv, run, reply, chunks>>

\* lines 156-163, then the next turn of the loop of line 146 or the return of
\* line 166; the checks of the last chunk stay in inflight, settled
SettleChunk ==
    /\ run.phase = "links"
    /\ allSettled(inflight)
    /\ LET next == run.i + CHUNK_SIZE
           more == next < Len(run.linksToCheck)
       IN  /\ run' = [run EXCEPT !.links = forEachResult(inflight, @),
                                 !.i = next,
                                 !.phase = IF more THEN "links" ELSE "done"]
           /\ inflight' = IF more THEN startChunk(run.linksToCheck, next) ELSE inflight
    /\ UNCHANGED <<appVars, corpusVars, evalCall, lastCall, firstCall, ncalls, response,
                   harnessSource, csv, reply, chunks>>

\* the reference file: a header line, then lines drawn from these
Header == <<"P", "r", "o", "v", "i", "d", "e", "r", ";", "T", "y", "p", "e", ";", "R", "G", ";", "S", "u", "b", ";", "R", "e", "g", "i", "o", "n">>

RawLines ==
    {<<"a", ";", "a", ";", "N", "o", ";", "N", "o", ";", "N", "o">>,
     <<"a", ";", "a", ";", "Y", "e", "s", ";", "Y", "e", "s", " ", "s", "t", "d", ";", "y", "e", "s">>,
     <<"A", ";", "a", ";", " ", "N", "o", " ", "s", "t", "d", " ", ";", " ", "N", "o", " ", "s", "t", "d", " ", ";", "n", "o", " ", "s", "t", "d", "\r">>,
     <<"s", "q", "l", ";", "s", ";", "P", "e", "n", "d", "i", "n", "g", ";", "p", "e", "n", "d", "i", "n", "g", ";", "P", "e", "n", "d", "i", "n", "g">>,
     <<"s", "q", "l", ";", "s", ";", "Y", "e", "s", ";", "N", "o", "t", ";", "N", "o", " ", "s", "t", "d", ";", "h", "t", "t", "p", ":", "d">>,
     <<"a", ";", "a", ";", "N", "o", ";", "Y", "e", "s">>,
     <<" ", " ">>}

CsvFiles ==
    {NoCsv} \cup {[exists |-> TRUE, lines |-> <<Header>> \o rows] : rows \in Lists(RawLines, MaxRows)}

InitHarness ==
    /\ AppIdle
    /\ loaded = FALSE
    /\ tenantRules = <<>>
    /\ rgRules = <<>>
    /\ subRules = <<>>
    /\ regionRules = <<>>
    /\ rulesData = <<>>
    /\ evalCall = NoCall
    /\ lastCall = NoCall
    /\ firstCall = NoCall
    /\ ncalls = 0
    /\ response = NoCall
    /\ harnessSource \in HarnessSources
    /\ csv \in CsvFiles
    /\ run = NoRun
    /\ inflight = <<>>
    /\ reply = NoReply
    /\ chunks = NoChunks

NextHarness ==
    \/ LoadCorpus
    \/ RunTest
    \/ \E k \in 1..CHUNK_SIZE : HeadSucceeds(k)
    \/ \E k \in 1..CHUNK_SIZE : HeadFails(k)
    \/ \E k \in 1..CHUNK_SIZE : GetSucceeds(k)
    \/ \E k \in 1..CHUNK_SIZE, status \in GetFailures : GetFails(k, status)
    \/ SettleChunk

SpecHarness == InitHarness /\ [][NextHarness]_vars

\* the run up to its first await: the logic section, whatever the network does
NextLogic == LoadCorpus \/ RunTest

SpecLogic == InitHarness /\ [][NextLogic]_vars

-----------------------------------------------------------------------------
(* Claims about the logic section, checked under SpecLogic *)

\* the run has passed its logic section
Ran == run.phase \in {"links", "done"}

RefLines == nonBlank(csv.lines)
RefCols(i) == split(RefLines[i + 1], ";")

\* the reference rows: the 0-based indices of the lines, after the header,
\* that have at least five columns
RefRows == {i \in 1..(Len(RefLines) - 1) : Len(RefCols(i)) >= 5}

TestsOf(source) == {Tests(source)[k] : k \in 1..Len(Tests(source))}
BlockTests == {t \in TestsOf(harnessSource) : t.scenario # "cross-region"}
RegionTests == {t \in TestsOf(harnessSource) : t.scenario = "cross-region"}

ShouldBlock(i, test) == expectsBlock(trim(RefCols(i)[test.col + 1]))
Verdict(i, test) == mockVerdict(harnessSource, RefCols(i), test)

\* the failure the claims describe for a check: row number, resource type,
\* scenario, expected label and actual verdict
FailureOf(i, test) ==
    [row |-> i + 1,
     resource |-> trim(RefCols(i)[1]) \o <<"/">> \o trim(RefCols(i)[2]),
     scenario |-> test.label,
     expected |-> test.expected,
     got |-> Verdict(i, test)]

Failures == {run.logic.failures[j] : j \in 1..Len(run.logic.failures)}
FailedFor(i, test) == \E f \in Failures : f.row = i + 1 /\ f.scenario = test.label

\* C13: harness block expectation.  For every reference row whose
\* resource-group or subscription column is a should-block value, the check
\* records no failure when the verdict for the mock is 'Blocker', and on any
\* other verdict records the failure carrying the row number, the resource
\* type, the scenario, the label 'Blocker' and the verdict; failed counts the
\* failures recorded.
C13_BlockExpectation ==
    Ran =>
        /\ \A i \in RefRows, test \in BlockTests :
              ShouldBlock(i, test) =>
                  IF Verdict(i, test) = "Blocker"
                  THEN ~FailedFor(i, test)
                  ELSE /\ FailureOf(i, test) \in Failures
                       /\ FailureOf(i, test).expected = "Blocker"
        /\ run.logic.failed = Len(run.logic.failures)

C13_Witness ==
    /\ Ran
    /\ harnessSource = "part_007"
    /\ \E i \in RefRows, rg, sub \in BlockTests :
          /\ rg.scenario = "cross-resourcegroup"
          /\ sub.scenario = "cross-subscription"
          /\ ShouldBlock(i, rg)
          /\ Verdict(i, rg) = "Warning"
          /\ FailureOf(i, rg) \in Failures
          /\ ShouldBlock(i, sub)
          /\ Verdict(i, sub) = "Info"
          /\ FailureOf(i, sub) \in Failures
    /\ \E i \in RefRows, test \in BlockTests :
          ShouldBlock(i, test) /\ Verdict(i, test) = "Blocker" /\ ~FailedFor(i, test)

\* C14: harness region expectation.  For every reference row whose region
\* column is a should-block value, the region check records no failure if and
\* only if the verdict under 'cross-region' is 'Critical' or 'Warning'; on
\* 'Blocker', 'Info' and 'Ready' it records the failure with the row number,
\* the expected label and the verdict.
C14_RegionExpectation ==
    Ran =>
        \A i \in RefRows, test \in RegionTests :
            ShouldBlock(i, test) =>
                /\ ~FailedFor(i, test) <=> Verdict(i, test) \in {"Critical", "Warning"}
                /\ FailedFor(i, test) => FailureOf(i, test) \in Failures

C14_Witness ==
    /\ Ran
    /\ \E i, j \in RefRows, test \in RegionTests :
          /\ ShouldBlock(i, test)
          /\ Verdict(i, test) = "Blocker"
          /\ FailureOf(i, test) \in Failures
          /\ ShouldBlock(j, test)
          /\ Verdict(j, test) = "Critical"
          /\ ~FailedFor(j, test)

\* the checks of the run: a reference row and one of the tests made on it
Checks == RefRows \X TestsOf(harnessSource)

Delivered(i, test) ==
    IF test.scenario = "cross-region"
    THEN Verdict(i, test) \in {"Critical", "Warning"}
    ELSE Verdict(i, test) = "Blocker"

\* C15: harness asymmetry.  A check whose expectation is should-not-block
\* records no failure whatever the verdict, 'Blocker' included; a failure is
\* recorded only for a check that expects blocking and whose verdict is not
\* the expected one; every other check is counted in passed.
C15_Asymmetry ==
    Ran =>
        /\ \A c \in Checks : ~ShouldBlock(c[1], c[2]) => ~FailedFor(c[1], c[2])
        /\ \A f \in Failures :
              \E c \in Checks :
                  /\ f = FailureOf(c[1], c[2])
                  /\ ShouldBlock(c[1], c[2])
                  /\ ~Delivered(c[1], c[2])
        /\ run.logic.passed =
              Cardinality({c \in Checks : ~ShouldBlock(c[1], c[2]) \/ Delivered(c[1], c[2])})

C15_Witness ==
    /\ Ran
    /\ \E c \in Checks :
          /\ ~ShouldBlock(c[1], c[2])
          /\ Verdict(c[1], c[2]) = "Blocker"
          /\ ~FailedFor(c[1], c[2])
    /\ run.logic.passed >= 1
    /\ run.logic.failed >= 1

-----------------------------------------------------------------------------
(* Claims about a whole run, checked under SpecHarness *)

\* the rules of the corpus whose refLink is fetched: a string starting with 'http'
HttpRules ==
    {k \in 1..Len(rulesData) :
        /\ rulesData[k].refLink.t = "string"
        /\ startsWith(rulesData[k].refLink.v, <<"h", "t", "t", "p">>)}

BrokenDetails == {run.links.details[j] : j \in 1..Len(run.links.details)}

RecordedBroken(check) ==
    \E d \in BrokenDetails :
        d.ruleId = check.item.ruleId /\ d.file = check.item.file /\ d.url = check.item.url

\* C17: link check protocol.  Every link check issues a HEAD request first,
\* issues a GET request exactly when the HEAD failed, and never a third
\* request; at the end of the run a link is among the broken details, with
\* its rule id and source file, if and only if its HEAD and its GET both failed.
C17_LinkProtocol ==
    Ran =>
        \A k \in 1..Len(inflight) :
            LET check == inflight[k]
            IN  /\ check.requests \in {<<"HEAD">>, <<"HEAD", "GET">>}
                /\ check.requests = <<"HEAD", "GET">> <=> check.head = "failed"
                /\ check.get # "none" <=> check.head = "failed"
                /\ check.settled =>
                      (~check.valid <=> (check.head = "failed" /\ check.get = "failed"))
                /\ run.phase = "done" =>
                      /\ check.settled
                      /\ RecordedBroken(check)
                            <=> (check.head = "failed" /\ check.get = "failed")
                      /\ run.links.broken = Len(run.links.details)

C17_Witness ==
    /\ run.phase = "done"
    /\ \E j, k \in 1..Len(inflight) :
          /\ inflight[j].head = "failed"
          /\ inflight[j].get = "ok"
          /\ ~RecordedBroken(inflight[j])
          /\ inflight[k].head = "failed"
          /\ inflight[k].get = "failed"
          /\ inflight[k].requests = <<"HEAD", "GET">>
          /\ RecordedBroken(inflight[k])

-----------------------------------------------------------------------------
(* The chunk loop over a list of links longer than a chunk.  The checks of a
   chunk are told apart by nothing the loop looks at, so they are counted:
   heads with the HEAD request pending, gets with the GET request pending. *)

\* line 147 and 148: chunk.map starts a check for each link of the slice;
\* slice stops at the end of the list
chunkLengthUnclamped(n, i) == CHUNK_SIZE

chunkLength(n, i) == IF i + CHUNK_SIZE < n THEN CHUNK_SIZE ELSE n - i

\* line 156: await Promise.all(promises) resumes when no check is pending
chunkHeadsSettled(c) == c.heads = 0

chunkSettled(c) == c.heads = 0 /\ c.gets = 0

\* lines 132-147: the list is built and the loop entered
ChunksBegin ==
    /\ chunks.phase = "idle"
    /\ chunks' = IF chunks.n = 0
                 THEN [chunks EXCEPT !.phase = "done"]
                 ELSE [chunks EXCEPT !.phase = "links",
                                     !.heads = chunkLength(chunks.n, 0),
                                     !.started = chunkLength(chunks.n, 0)]
    /\ UNCHANGED <<appVars, corpusVars, evalCall, lastCall, firstCall, ncalls, response,
                   harnessSource, csv, run, inflight, reply>>

\* lines 75-76: a HEAD succeeds and its check completes
ChunkHeadSucceeds ==
    /\ chunks.phase = "links"
    /\ chunks.heads > 0
    /\ chunks' = [chunks EXCEPT !.heads = @ - 1, !.completed = @ + 1]
    /\ UNCHANGED <<appVars, corpusVars, evalCall, lastCall, firstCall, ncalls, response,
                   harnessSource, csv, run, inflight, reply>>

\* lines 77-79: a HEAD fails and its check issues the GET
ChunkHeadFails ==
    /\ chunks.phase = "links"
    /\ chunks.heads > 0
    /\ chunks' = [chunks EXCEPT !.heads = @ - 1, !.gets = @ + 1]
    /\ UNCHANGED <<appVars, corpusVars, evalCall, lastCall, firstCall, ncalls, response,
                   harnessSource, csv, run, inflight, reply>>

\* lines 79-83: a GET succeeds or fails and its check completes
ChunkGetSettles ==
    /\ chunks.phase = "links"
    /\ chunks.gets > 0
    /\ chunks' = [chunks EXCEPT !.gets = @ - 1, !.completed = @ + 1]
    /\ UNCHANGED <<appVars, corpusVars, evalCall, lastCall, firstCall, ncalls, response,
                   harnessSource, csv, run, inflight, reply>>

\* lines 156-163 and the next turn of the loop of line 146
ChunkSettle ==
    /\ chunks.phase = "links"
    /\ chunkSettled(chunks)
    /\ LET next == chunks.i + CHUNK_SIZE
       IN  chunks' = IF next < chunks.n
                     THEN [chunks EXCEPT !.i = next,
                                         !.heads = @ + chunkLength(chunks.n, next),
                                         !.started = @ + chunkLength(chunks.n, next)]
                     ELSE [chunks EXCEPT !.i = next, !.phase = "done"]
    /\ UNCHANGED <<appVars, corpusVars, evalCall, lastCall, firstCall, ncalls, response,
                   harnessSource, csv, run, inflight, reply>>

\* a run about to check n links
InitChunks ==
    /\ AppIdle
    /\ loaded = FALSE
    /\ tenantRules = <<>>
    /\ rgRules = <<>>
    /\ subRules = <<>>
    /\ regionRules = <<>>
    /\ rulesData = <<>>
    /\ evalCall = NoCall
    /\ lastCall = NoCall
    /\ firstCall = NoCall
    /\ ncalls = 0
    /\ response = NoCall
    /\ harnessSource = "verifyService.ts"
    /\ csv = NoCsv
    /\ run = NoRun
    /\ inflight = <<>>
    /\ reply = NoReply
    /\ \E n \in 0..MaxLinks :
          chunks = [phase |-> "idle", n |-> n, i |-> 0, heads |-> 0, gets |-> 0,
                    started |-> 0, completed |-> 0]

NextChunks ==
    \/ ChunksBegin
    \/ ChunkHeadSucceeds
    \/ ChunkHeadFails
    \/ ChunkGetSettles
    \/ ChunkSettle

SpecChunks == InitChunks /\ [][NextChunks]_vars

\* the checks started and not completed
InFlight == chunks.started - chunks.completed

\* C18: bounded link-check concurrency.  In every state of a run at most 20
\* link checks are in flight, and while a check of a batch is in flight every
\* check of the batches before it, GET fallback included, has completed.
C18_BoundedConcurrency ==
    chunks.phase # "idle" =>
        /\ InFlight <= 20
        /\ InFlight = chunks.heads + chunks.gets
        /\ chunks.completed >= (IF chunks.i < chunks.n THEN chunks.i ELSE chunks.n)
        /\ chunks.started <= chunks.i + 20

C18_Witness ==
    /\ chunks.phase = "links"
    /\ chunks.i = 20
    /\ chunks.n > 40
    /\ InFlight = 20
    /\ chunks.gets > 0
    /\ chunks.completed = 20

-----------------------------------------------------------------------------
(* Claims about the diagnostics endpoint, checked under SpecHarness *)

\* C19: diagnostics response.  The response to GET /api/admin/run-test is
\* sent only once the conformance run it started has completed, and its body
\* is that run's report: the logic section and the links section.
C19_ResponseAfterRun ==
    reply.sent =>
        /\ run.phase = "done"
        /\ reply.body = reportOf(run)

-----------------------------------------------------------------------------
(* index.ts, lines 162-336: the analyzeResource kept inline in the server,
   with its knowledge base written as code *)

kIdentity == <<"i", "d", "e", "n", "t", "i", "t", "y">>
kProperties == <<"p", "r", "o", "p", "e", "r", "t", "i", "e", "s">>
kSku == <<"s", "k", "u">>
kSiteAuthEnabled == <<"s", "i", "t", "e", "A", "u", "t", "h", "E", "n", "a", "b", "l", "e", "d">>
kVirtualNetworkPeerings == <<"v", "i", "r", "t", "u", "a", "l", "N", "e", "t", "w", "o", "r", "k", "P", "e", "e", "r", "i", "n", "g", "s">>

SystemAssigned == <<"S", "y", "s", "t", "e", "m", "A", "s", "s", "i", "g", "n", "e", "d">>
UserAssigned == <<"U", "s", "e", "r", "A", "s", "s", "i", "g", "n", "e", "d">>
Standard == <<"S", "t", "a", "n", "d", "a", "r", "d">>

KeyVaults == <<"m", "i", "c", "r", "o", "s", "o", "f", "t", ".", "k", "e", "y", "v", "a", "u", "l", "t", "/", "v", "a", "u", "l", "t", "s">>
WebSites == <<"m", "i", "c", "r", "o", "s", "o", "f", "t", ".", "w", "e", "b", "/", "s", "i", "t", "e", "s">>
SqlServersType == <<"m", "i", "c", "r", "o", "s", "o", "f", "t", ".", "s", "q", "l", "/", "s", "e", "r", "v", "e", "r", "s">>
StorageAccounts == <<"m", "i", "c", "r", "o", "s", "o", "f", "t", ".", "s", "t", "o", "r", "a", "g", "e", "/", "s", "t", "o", "r", "a", "g", "e", "a", "c", "c", "o", "u", "n", "t", "s">>
ManagedClusters == <<"m", "i", "c", "r", "o", "s", "o", "f", "t", ".", "c", "o", "n", "t", "a", "i", "n", "e", "r", "s", "e", "r", "v", "i", "c", "e", "/", "m", "a", "n", "a", "g", "e", "d", "c", "l", "u", "s", "t", "e", "r", "s">>
ApiManagement == <<"m", "i", "c", "r", "o", "s", "o", "f", "t", ".", "a", "p", "i", "m", "a", "n", "a", "g", "e", "m", "e", "n", "t", "/", "s", "e", "r", "v", "i", "c", "e">>
VirtualNetworks == <<"m", "i", "c", "r", "o", "s", "o", "f", "t", ".", "n", "e", "t", "w", "o", "r", "k", "/", "v", "i", "r", "t", "u", "a", "l", "n", "e", "t", "w", "o", "r", "k", "s">>
PublicIpAddresses == <<"m", "i", "c", "r", "o", "s", "o", "f", "t", ".", "n", "e", "t", "w", "o", "r", "k", "/", "p", "u", "b", "l", "i", "c", "i", "p", "a", "d", "d", "r", "e", "s", "s", "e", "s">>

Issue(severity, message) == [severity |-> severity, message |-> message]

\* lines 164-245: TENANT_RULES[type](res), or no issue for a type without entry
tenantRulesOf(type, res) ==
    CASE type = KeyVaults -> <<Issue("Critical", "Associazione Tenant ID persa")>>
      [] type = WebSites ->
            <<Issue("Warning", "App Service Managed Certificates")>>
            \o (IF Truthy(Get(res, kProperties))
                   /\ Truthy(Get(Get(res, kProperties), kSiteAuthEnabled))
                THEN <<Issue("Critical", "Authentication / Authorization attivo")>>
                ELSE <<>>)
      [] type = SqlServersType -> <<Issue("Critical", "Azure AD Admin & Authentication")>>
      [] type = StorageAccounts -> <<Issue("Warning", "RBAC Data Plane & ACL")>>
      [] type = ManagedClusters -> <<Issue("Blocker", "Perdita Identita Cluster & SPN")>>
      [] type = ApiManagement ->
            <<Issue("Blocker", "Risorsa non spostabile durante aggiornamenti")>>
      [] OTHER -> <<>>

\* lines 256-273: the managed identity checks
identityIssues(res) ==
    LET ident == Get(res, kIdentity)
        type == Get(ident, kType).v
    IN  (IF type = SystemAssigned \/ includes(type, SystemAssigned)
         THEN <<Issue("Critical", "System-Assigned Managed Identity")>> ELSE <<>>)
        \o (IF includes(type, UserAssigned)
            THEN <<Issue("Warning", "User-Assigned Managed Identity")>> ELSE <<>>)

\* lines 253-292: the checks of a tenant move
tenantIssues(res) ==
    LET found == IF Truthy(Get(res, kIdentity)) THEN identityIssues(res) ELSE <<>>
        rbac == IF Len(found) = 0
                THEN <<Issue("Info", "Perdita assegnazioni RBAC (IAM)")>> ELSE <<>>
    IN  found \o rbac \o tenantRulesOf(toLowerCase(Get(res, kType).v), res)

\* lines 295-319: the checks of a subscription or resource-group move
moveIssues(res) ==
    LET type == toLowerCase(Get(res, kType).v)
        properties == Get(res, kProperties)
        peerings == IF Truthy(properties) THEN Get(properties, kVirtualNetworkPeerings)
                    ELSE Undefined
        sku == Get(res, kSku)
        name == IF IsNullish(sku) THEN Undefined ELSE Get(sku, kName)
    IN  (IF type = VirtualNetworks /\ Truthy(peerings) /\ peerings.t = "array"
            /\ Len(peerings.v) > 0
         THEN <<Issue("Blocker", "VNET Peering Attivi")>> ELSE <<>>)
        \o (IF type = PublicIpAddresses /\ name = Str(Standard)
            THEN <<Issue("Warning", "Standard Public IP Association")>> ELSE <<>>)

\* the property reads that throw a TypeError: identity.type.includes on an
\* identity without a string type (lines 256, 265), res.type.toLowerCase()
\* on a record without a string type (lines 288, 297)
inlineThrows(res, scenario) ==
    \/ IsNullish(res)
    \/ /\ scenario = "cross-tenant"
       /\ \/ Truthy(Get(res, kIdentity)) /\ Get(Get(res, kIdentity), kType).t # "string"
          \/ Get(res, kType).t # "string"
    \/ /\ scenario \in {"cross-subscription", "cross-resourcegroup"}
       /\ Get(res, kType).t # "string"

\* lines 248-336
inlineAnalyzeResource(res, scenario) ==
    IF inlineThrows(res, scenario) THEN Throw
    ELSE LET issues ==
                 (IF scenario = "cross-tenant" THEN tenantIssues(res) ELSE <<>>)
                 \o (IF scenario \in {"cross-subscription", "cross-resourcegroup"}
                     THEN moveIssues(res) ELSE <<>>)
         IN  Return([identity |-> [id |-> Get(res, kId), name |-> Get(res, kName),
                                   type |-> Get(res, kType),
                                   resourceGroup |-> Get(res, kResourceGroup),
                                   location |-> Get(res, kLocation)],
                     migrationStatus |-> reduceStatus(issues),
                     issues |-> issues])

\* the inventory the inline analyzer is called on: a type in any letter case
\* or none, with or without SKU, identity and properties
InlineTypes ==
    {Str(<<"M", "i", "c", "r", "o", "s", "o", "f", "t", ".", "N", "e", "t", "w", "o", "r", "k", "/", "p", "u", "b", "l", "i", "c", "I", "P", "A", "d", "d", "r", "e", "s", "s", "e", "s">>), Str(PublicIpAddresses),
     Str(<<"M", "i", "c", "r", "o", "s", "o", "f", "t", ".", "N", "e", "t", "w", "o", "r", "k", "/", "v", "i", "r", "t", "u", "a", "l", "N", "e", "t", "w", "o", "r", "k", "s">>), Str(KeyVaults), Str(WebSites),
     Str(<<"m", "i", "c", "r", "o", "s", "o", "f", "t", ".", "c", "o", "m", "p", "u", "t", "e", "/", "v", "i", "r", "t", "u", "a", "l", "m", "a", "c", "h", "i", "n", "e", "s">>), Undefined}

InlineSkus ==
    {Undefined, EmptyObj, Obj(kName :> Str(Standard)), Obj(kName :> Str(<<"s", "t", "a", "n", "d", "a", "r", "d">>)),
     Obj(kName :> Str(<<"B", "a", "s", "i", "c">>))}

InlineIdentities ==
    {Undefined, EmptyObj, Obj(kType :> Str(SystemAssigned)), Obj(kType :> Str(UserAssigned)),
     Obj(kType :> Str(<<"S", "y", "s", "t", "e", "m", "A", "s", "s", "i", "g", "n", "e", "d", ",", " ", "U", "s", "e", "r", "A", "s", "s", "i", "g", "n", "e", "d">>))}

InlineProperties ==
    {Undefined, Obj(kVirtualNetworkPeerings :> Arr(<<EmptyObj>>)),
     Obj(kVirtualNetworkPeerings :> Arr(<<>>)), Obj(kSiteAuthEnabled :> Bool(TRUE))}

\* an object with the properties that are not undefined
Plain(fields) ==
    Obj([k \in {k \in DOMAIN fields : fields[k].t # "undefined"} |-> fields[k]])

InlineRecords ==
    {Plain(kType :> type @@ kSku :> sku @@ kIdentity :> ident @@ kProperties :> properties) :
        type \in InlineTypes, sku \in InlineSkus, ident \in InlineIdentities,
        properties \in InlineProperties}

\* the state in which one call of the inline analyzeResource is about to be made
InitInline ==
    /\ HarnessIdle
    /\ AppIdle
    /\ loaded = FALSE
    /\ tenantRules = <<>>
    /\ rgRules = <<>>
    /\ subRules = <<>>
    /\ regionRules = <<>>
    /\ rulesData = <<>>
    /\ evalCall = NoCall
    /\ firstCall = NoCall
    /\ ncalls = 0
    /\ response = NoCall
    /\ \E res \in InlineRecords, scenario \in Scenarios :
          lastCall = [called |-> FALSE, pending |-> TRUE, res |-> res, scenario |-> scenario]

\* line 353: the call the route makes for a resource of the inventory
InlineAnalyze ==
    /\ lastCall.pending
    /\ lastCall' = [called |-> TRUE, pending |-> FALSE, res |-> lastCall.res,
                    scenario |-> lastCall.scenario, resAfter |-> lastCall.res,
                    out |-> inlineAnalyzeResource(lastCall.res, lastCall.scenario)]
    /\ UNCHANGED <<appVars, corpusVars, evalCall, firstCall, ncalls, response, harnessVars>>

NextInline == InlineAnalyze

SpecInline == InitInline /\ [][NextInline]_vars

\* C20: end-to-end.  Analyzing a resource whose type is
\* 'microsoft.network/publicipaddresses' and whose sku.name is 'Standard'
\* under 'cross-subscription' yields the verdict 'Blocker'.
C20_StandardPublicIp ==
    ( /\ lastCall.called
      /\ lastCall.scenario = "cross-subscription"
      /\ Get(lastCall.res, kType) = Str(PublicIpAddresses)
      /\ Get(Get(lastCall.res, kSku), kName) = Str(Standard) )
    => /\ ~lastCall.out.threw
       /\ lastCall.out.value.migrationStatus = "Blocker"

-----------------------------------------------------------------------------
(* The link section under the assumption that every request is answered:
   axios settles each HEAD and each GET (a response, an error or the 5 s
   timeout of lines 75 and 79), and the event loop resumes the run when
   Promise.all settles *)

SpecChunksFair ==
    /\ SpecChunks
    /\ WF_vars(ChunkHeadSucceeds \/ ChunkHeadFails)
    /\ WF_vars(ChunkGetSettles)
    /\ WF_vars(ChunkSettle)

\* the run has returned and every collected link was checked exactly once:
\* as many checks were started as there are links, and all of them completed
AllChecked ==
    /\ chunks.phase = "done"
    /\ chunks.started = chunks.n
    /\ chunks.completed = chunks.n
    /\ InFlight = 0

\* C21: run to completion.  If every outbound request eventually succeeds,
\* fails or times out, a run that has entered its link section eventually
\* returns, and then every collected reference link has been checked exactly
\* once, whatever the outcome of each check.
C21_RunToCompletion == (chunks.phase = "links") ~> AllChecked

C21_Witness ==
    /\ AllChecked
    /\ chunks.n > 2 * CHUNK_SIZE
    /\ chunks.i > chunks.n

-----------------------------------------------------------------------------
(* Claims about the tests made on a row, checked under SpecLogic *)

\* the test of the resource-group column, as unnamed/part_007 makes it
\* (lines 109-128)
RgTest == Tests("part_007")[1]

\* C22: three scenarios per row.  For every reference row with at least five
\* columns the run makes one check for each of resource-group move,
\* subscription move and region move: logic.total is three times the number
\* of such rows, and a resource-group column that expects a block is checked
\* against the verdict under 'cross-resourcegroup'.
C22_ThreeScenarios ==
    Ran =>
        /\ run.logic.total = 3 * Cardinality(RefRows)
        /\ \A i \in RefRows :
              (ShouldBlock(i, RgTest) /\ Verdict(i, RgTest) # "Blocker")
                  => \E f \in Failures : f.row = i + 1 /\ f.got = Verdict(i, RgTest)
                                         /\ f.scenario = RgTest.label

\* the text of the cell a check reads, trimmed as lines 103 and 104 trim it
Cell(i, test) == trim(RefCols(i)[test.col + 1])

\* a text that is "no" or "pending", whatever the case of its letters
IsNoOrPending(text) == toLowerCase(text) \in {<<"n", "o">>, <<"p", "e", "n", "d", "i", "n", "g">>}

\* a text whose first two letters are 'n' and 'o', in either case
BeginsWithNo(text) ==
    /\ Len(text) >= 2
    /\ text[1] \in {"n", "N"}
    /\ text[2] \in {"o", "O"}

\* C23 as stated: expectation mapping.  A reference cell is treated as
\* should-block if and only if its text is "No" or "Pending", ignoring case
\* and surrounding whitespace; every other text, a longer text that begins
\* with 'no' included, is should-not-block, so its check never fails.
C23_ExactMapping ==
    Ran =>
        \A c \in Checks :
            FailedFor(c[1], c[2])
                <=> (IsNoOrPending(Cell(c[1], c[2])) /\ ~Delivered(c[1], c[2]))

\* C23, amended: a reference cell is treated as should-block if and only if
\* its text, ignoring case and surrounding whitespace, begins with 'no' or is
\* 'pending'; every other text is should-not-block.
C23_ExpectationMapping ==
    Ran =>
        \A c \in Checks :
            FailedFor(c[1], c[2])
                <=> /\ BeginsWithNo(Cell(c[1], c[2]))
                       \/ toLowerCase(Cell(c[1], c[2])) = <<"p", "e", "n", "d", "i", "n", "g">>
                    /\ ~Delivered(c[1], c[2])

C23_Witness ==
    /\ Ran
    /\ \E c, e \in Checks :
          /\ BeginsWithNo(Cell(c[1], c[2]))
          /\ ~IsNoOrPending(Cell(c[1], c[2]))
          /\ FailedFor(c[1], c[2])
          /\ ~BeginsWithNo(Cell(e[1], e[2]))
          /\ ~Delivered(e[1], e[2])
          /\ ~FailedFor(e[1], e[2])
    /\ \E c \in Checks :
          /\ Cell(c[1], c[2]) = <<"P", "e", "n", "d", "i", "n", "g">>
          /\ FailedFor(c[1], c[2])

-----------------------------------------------------------------------------
(* engine.ts: getNestedValue on its own.  's', 'n' and 'l' stand for the
   properties sku, name and level; 'length' and '0' are the length and the
   first element of a string or an array *)

kL == <<"l">>

ResolveRecords ==
    {Null, Undefined, EmptyObj, Str(sStd), Num(0)}
    \cup {Obj(kS :> sku) : sku \in SkuValues}
    \cup {Obj(kS :> Obj(kN :> Obj(kL :> v))) : v \in {Null, Num(0), Str(sst)}}
    \cup {Obj(<<"S">> :> Obj(kN :> Str(sStd))), Obj(kS :> Obj(<<"N">> :> Str(sStd)))}

ResolvePaths ==
    {Str(<<>>), Str(<<"s">>), Str(<<"x">>), Str(<<"s", ".", "n">>), Str(<<"S", ".", "n">>), Str(<<"s", ".", "N">>),
     Str(<<"s", ".", "n", ".", "l">>), Str(<<"s", ".", "n", ".", "l", "e", "n", "g", "t", "h">>), Str(<<"s", ".", "n", ".", "0">>), Str(<<"s", ".", ".", "n">>),
     Str(<<"s", ".", "x", ".", "n">>), Str(<<".">>)}

\* the state in which one getNestedValue(obj, path) call is about to be made
InitResolve ==
    /\ HarnessIdle
    /\ AppIdle
    /\ loaded = FALSE
    /\ tenantRules = <<>>
    /\ rgRules = <<>>
    /\ subRules = <<>>
    /\ regionRules = <<>>
    /\ rulesData = <<>>
    /\ \E obj \in ResolveRecords, path \in ResolvePaths :
          evalCall = [called |-> FALSE, obj |-> obj, path |-> path, out |-> Return(Undefined)]
    /\ lastCall = NoCall
    /\ firstCall = NoCall
    /\ ncalls = 0
    /\ response = NoCall

\* the call; indexing a value that is neither null nor undefined does not
\* throw, and no other operation of lines 24-25 can for a string path
GetNestedValue ==
    /\ ~evalCall.called
    /\ evalCall' = [evalCall EXCEPT
                       !.called = TRUE,
                       !.out = Return(getNestedValue(evalCall.obj, evalCall.path))]
    /\ UNCHANGED <<appVars, corpusVars, lastCall, firstCall, ncalls, response, harnessVars>>

NextResolve == GetNestedValue

SpecResolve == InitResolve /\ [][NextResolve]_vars

RECURSIVE Walk(_, _)
\* the value found by walking the segments from a value: absent as soon as
\* the value walked from is null or undefined, else its property
Walk(value, parts) ==
    IF Len(parts) = 0 THEN value
    ELSE IF IsNullish(value) THEN Undefined
    ELSE Walk(Get(value, Head(parts)), Tail(parts))

\* two values of the same type and content
SameValue(a, b) == a.t = b.t /\ a.v = b.v

\* C24: field resolution.  For every record and dotted path the resolver
\* does not throw and returns the value found by walking the path segment by
\* segment, absent as soon as an intermediate segment is missing, null or
\* undefined; an empty path resolves to absent; segment names are compared
\* exactly.
C24_FieldResolution ==
    evalCall.called =>
        /\ ~evalCall.out.threw
        /\ SameValue(evalCall.out.value,
                     IF evalCall.path.v = <<>> THEN Undefined
                     ELSE Walk(evalCall.obj, split(evalCall.path.v, ".")))

-----------------------------------------------------------------------------
(* Claims about the operators of the condition gate, checked under SpecEval *)

\* the call passed the scenario gate and the type gate and the rule has a
\* condition with this operator
ReachedOperator(operator) ==
    /\ evalCall.called
    /\ scenarioMatch(evalCall.rule, evalCall.scenario)
    /\ HasStringType(evalCall.res)
    /\ typeMatches(toLowerCase(Get(evalCall.res, kType).v),
                   toLowerCase(evalCall.rule.resourceType))
    /\ evalCall.rule.condition.present
    /\ evalCall.rule.condition.operator = operator

\* the value the condition's field resolves to in the record
Resolved == getNestedValue(evalCall.res, evalCall.rule.condition.field)

\* a container with at least one element: an array that is not empty
NonEmptyContainer(value) == value.t = "array" /\ Len(value.v) >= 1

\* C25: non-empty operator.  A rule whose condition uses notEmpty and whose
\* scenario and type gates pass fires if and only if the resolved field value
\* is an array with at least one element; it returns false for a string, a
\* number, a boolean, a plain object and an empty array.
C25_NonEmptyOperator ==
    ReachedOperator("notEmpty") =>
        /\ Fired <=> NonEmptyContainer(Resolved)
        /\ ~Fired => ReturnedFalse

C25_Witness ==
    /\ ReachedOperator("notEmpty")
    /\ Fired
    /\ Resolved = Arr(<<Str(sstd)>>)

\* the call passed both gates and the condition's field is present
ReachedPresent ==
    /\ evalCall.called
    /\ evalCall.rule.condition.present
    /\ ReachedOperator(evalCall.rule.condition.operator)
    /\ ~IsNullish(Resolved)

\* p occurs in s as a run of consecutive characters
IsSubstring(p, s) ==
    \E i \in 1..(Len(s) + 1) :
        /\ i + Len(p) - 1 <= Len(s)
        /\ SubSeq(s, i, i + Len(p) - 1) = p

\* the same call with the operator replaced
WithOperator(operator) ==
    evaluateRule(evalCall.res,
                 [evalCall.rule EXCEPT !.condition.operator = operator],
                 evalCall.scenario)

\* C26: equals, not-equals, contains.  For a present field value, eq fires
\* iff the lower-cased string form of the value equals the lower-cased string
\* form of the operand, contains fires iff the former contains the latter as
\* a substring, and neq fires exactly when eq on the same value and operand
\* does not.
C26_StringOperators ==
    ReachedPresent =>
        LET actual == toLowerCase(String(Resolved))
            operand == toLowerCase(String(evalCall.rule.condition.value))
            operator == evalCall.rule.condition.operator
        IN  /\ operator = "eq" => (Fired <=> actual = operand)
            /\ operator = "contains" => (Fired <=> IsSubstring(operand, actual))
            /\ operator = "neq" =>
                  /\ Fired <=> WithOperator("eq") # Return(TRUE)
                  /\ Fired <=> actual # operand
            /\ operator \in {"eq", "neq", "contains"} => (Fired \/ ReturnedFalse)

C26_Witness ==
    /\ ReachedPresent
    /\ evalCall.rule.condition.operator = "eq"
    /\ Fired
    /\ Resolved = Str(sStd)
    /\ evalCall.rule.condition.value = Str(sstd)
    /\ WithOperator("neq") = Return(FALSE)
    /\ WithOperator("contains") = Return(TRUE)

-----------------------------------------------------------------------------
(* Claims about the type gate, checked under SpecEval *)

\* the call passed the scenario gate on a record with a string type and the
\* rule has no condition: it fires exactly when the type gate passes
TypeGateDecides ==
    /\ evalCall.called
    /\ scenarioMatch(evalCall.rule, evalCall.scenario)
    /\ HasStringType(evalCall.res)
    /\ ~evalCall.rule.condition.present

EqualIgnoringCase(s, t) ==
    /\ Len(s) = Len(t)
    /\ \A i \in 1..Len(s) : LowerChar(s[i]) = LowerChar(t[i])

\* C27: type gate, exact and bare wildcard.  The type gate passes for every
\* resource type when the rule pattern is '*', and passes when pattern and
\* resource type are equal ignoring letter case; a pattern that is neither
\* '*', nor equal ignoring case, nor a '/*' prefix pattern satisfying the
\* boundary rule never matches.
C27_TypeGate ==
    TypeGateDecides =>
        LET type == Get(evalCall.res, kType).v
            pattern == evalCall.rule.resourceType
        IN  /\ pattern = <<"*">> => Fired
            /\ EqualIgnoringCase(pattern, type) => Fired
            /\ ( /\ pattern # <<"*">>
                 /\ ~EqualIgnoringCase(pattern, type)
                 /\ ~(IsPrefixPattern(pattern) /\ PrefixBoundary(type, pattern)) )
               => ReturnedFalse

C27_Witness ==
    /\ TypeGateDecides
    /\ Fired
    /\ evalCall.rule.resourceType # <<"*">>
    /\ evalCall.rule.resourceType # Get(evalCall.res, kType).v
    /\ ~IsPrefixPattern(evalCall.rule.resourceType)
    /\ EqualIgnoringCase(evalCall.rule.resourceType, Get(evalCall.res, kType).v)

-----------------------------------------------------------------------------
(* The logic section, one line of the reference file at a time *)

\* lines 91-97: logicResult is initialised and, if the file exists, its
\* non-blank lines are read and the loop entered at the line after the header
BeginLogic ==
    /\ loaded
    /\ run.phase = "idle"
    /\ run' = [phase |-> "logic", lines |-> nonBlank(csv.lines), i |-> 1,
               logic |-> EmptyLogic]
    /\ UNCHANGED <<appVars, corpusVars, evalCall, lastCall, firstCall, ncalls, response,
                   harnessSource, csv, inflight, reply, chunks>>

\* lines 97-127: one turn of the loop; a line with fewer than five columns
\* is left by the continue of line 99
ProcessLine ==
    /\ run.phase = "logic"
    /\ run.i < Len(run.lines)
    /\ LET cols == split(run.lines[run.i + 1], ";")
       IN  run' = IF Len(cols) < 5
                  THEN [run EXCEPT !.i = @ + 1]
                  ELSE [run EXCEPT !.i = @ + 1,
                                   !.logic = runChecks(harnessSource, cols, run.i,
                                                       Tests(harnessSource), @)]
    /\ UNCHANGED <<appVars, corpusVars, evalCall, lastCall, firstCall, ncalls, response,
                   harnessSource, csv, inflight, reply, chunks>>

NextRows == LoadCorpus \/ BeginLogic \/ ProcessLine

SpecRows == InitHarness /\ [][NextRows]_vars

\* the turn of the loop about to be taken reads a line with fewer than five columns
AtShortLine ==
    /\ run.phase = "logic"
    /\ run.i < Len(run.lines)
    /\ Len(split(run.lines[run.i + 1], ";")) < 5

\* C28: harness counter invariant.  In every state of the logic section,
\* after each processed row, passed + failed = total and the number of
\* entries of failures is failed; a row with fewer than five columns changes
\* none of the counters.
C28_Counters ==
    /\ [](run.phase = "logic" =>
             /\ run.logic.passed + run.logic.failed = run.logic.total
             /\ Len(run.logic.failures) = run.logic.failed)
    /\ [][AtShortLine => run'.logic = run.logic]_vars

C28_Witness ==
    /\ run.phase = "logic"
    /\ run.i = Len(run.lines)
    /\ \E j \in 2..Len(run.lines) : Len(split(run.lines[j], ";")) < 5
    /\ run.logic.failed >= 2
    /\ run.logic.passed >= 1
    /\ run.logic.total = run.logic.passed + run.logic.failed

\* the loop, once over, has computed what logicSection returns
RowsAgree ==
    (run.phase = "logic" /\ run.i >= Len(run.lines))
        => run.logic = logicSection(harnessSource, csv).value

-----------------------------------------------------------------------------
(* Claims about the details of the /api/analyze response, checked under SpecApi *)

Answered == response.called /\ response.reply.status = 200

Details == response.reply.details

\* what analyzeResource computes for the i-th resource of the inventory
EngineAnalysis(i) == analyzeResource(response.req.raw[i], response.reply.scenario).value

HasInjected(i) == \E j \in 1..Len(Details[i].issues) : Details[i].issues[j] = injectedIssue

\* the rank of the most severe issue of a list, 0 for the empty list
HighestRank(issues) ==
    IF Len(issues) = 0 THEN 0
    ELSE CHOOSE r \in 0..4 :
             /\ \E j \in 1..Len(issues) : Rank(issues[j].severity) = r
             /\ \A j \in 1..Len(issues) : Rank(issues[j].severity) <= r

\* C29: injected region-capability issue.  In the /api/analyze response a
\* resource carries an injected issue only when the scenario is
\* 'cross-region' and a target region was given; the injected issue is then
\* first in its issue list, followed by the engine's issues, and its
\* migrationStatus is 'Blocker'; every other resource has exactly the issues
\* and the verdict analyzeResource computes; so the migrationStatus of every
\* resource is the highest severity among its issues.
C29_InjectedIssue ==
    Answered =>
        /\ Len(Details) = Len(response.req.raw)
        /\ \A i \in 1..Len(Details) :
              /\ HasInjected(i) =>
                    /\ response.reply.scenario = "cross-region"
                    /\ response.req.targetRegion
                    /\ Details[i].issues[1] = injectedIssue
                    /\ Tail(Details[i].issues) = EngineAnalysis(i).issues
                    /\ Details[i].migrationStatus = "Blocker"
              /\ ~HasInjected(i) =>
                    /\ Details[i].issues = EngineAnalysis(i).issues
                    /\ Details[i].migrationStatus = EngineAnalysis(i).migrationStatus
              /\ Rank(Details[i].migrationStatus) = HighestRank(Details[i].issues)
              /\ Details[i].migrationStatus \in Severities \cup {"Ready"}

C29_Witness ==
    /\ Answered
    /\ \E i \in 1..Len(Details) :
          /\ HasInjected(i)
          /\ Len(Details[i].issues) >= 2
          /\ EngineAnalysis(i).migrationStatus \in {"Critical", "Warning", "Info"}
          /\ Details[i].migrationStatus = "Blocker"

-----------------------------------------------------------------------------
(* App.tsx: the configuration view of the dashboard.  The tenant has the
   subscriptions A and B, with one resource group each *)

MaxFetches == 2      \* /api/resource-groups requests pending at once

TenantSubs == <<"A", "B">>

TenantGroups == <<[name |-> "a1", subscriptionId |-> "A"],
                  [name |-> "b1", subscriptionId |-> "B"]>>

\* verifyService.ts, lines 221-241: the resource groups of the subscriptions
\* of the request, ordered by name
resourceGroupsOf(subscriptions) ==
    SelectSeq(TenantGroups,
              LAMBDA rg : \E k \in 1..Len(subscriptions) : subscriptions[k] = rg.subscriptionId)

\* res.data.map(rg => rg.name)
namesOf(groups) == [k \in 1..Len(groups) |-> groups[k].name]

\* lines 305-307: fetchResourceGroups up to its await, with the selectedSubs
\* of the render whose effect calls it
startFetch(a, pending) ==
    [app |-> [a EXCEPT !.loadingRGs = TRUE],
     fetches |-> Append(pending, [subscriptions |-> a.selectedSubs])]

\* lines 300-303: the effect that runs after a render in which selectedSubs
\* or scenario changed
effect(a, pending) ==
    IF Len(a.availableSubs) > 0 /\ Len(a.selectedSubs) > 0 /\ a.scenario # "cross-tenant"
    THEN startFetch(a, pending)
    ELSE [app |-> [a EXCEPT !.availableRGs = <<>>, !.selectedRGs = <<>>],
          fetches |-> pending]

\* lines 249-279: the initial state, and the effect of the first render
Mounted ==
    [view |-> "config", availableSubs |-> <<>>, selectedSubs |-> <<>>,
     scenario |-> "cross-tenant", availableRGs |-> <<>>, selectedRGs |-> <<>>,
     loadingRGs |-> FALSE, logged |-> FALSE]

\* the page is opened
Mount ==
    /\ app = NoApp
    /\ app' = effect(Mounted, fetches).app
    /\ fetches' = effect(Mounted, fetches).fetches
    /\ UNCHANGED <<corpusVars, evalCall, lastCall, firstCall, ncalls, response,
                   harnessVars>>

Open == app.view = "config"

\* lines 281-298: connectToAzure, answered with the subscriptions of the tenant
ConnectToAzure ==
    /\ Open
    /\ Len(fetches) < MaxFetches
    /\ LET a == [app EXCEPT !.availableSubs = TenantSubs,
                            !.selectedSubs = <<TenantSubs[1]>>]
       IN  /\ app' = effect(a, fetches).app
           /\ fetches' = effect(a, fetches).fetches
    /\ UNCHANGED <<corpusVars, evalCall, lastCall, firstCall, ncalls, response,
                   harnessVars>>

\* lines 344-346: prev.includes(id) ? prev.filter(s => s !== id) : [...prev, id]
toggle(prev, id) ==
    IF \E k \in 1..Len(prev) : prev[k] = id
    THEN SelectSeq(prev, LAMBDA s : s # id)
    ELSE Append(prev, id)

\* a subscription checkbox is clicked
HandleSubToggle(id) ==
    /\ Open
    /\ \E k \in 1..Len(app.availableSubs) : app.availableSubs[k] = id
    /\ Len(fetches) < MaxFetches
    /\ LET a == [app EXCEPT !.selectedSubs = toggle(@, id)]
       IN  /\ app' = effect(a, fetches).app
           /\ fetches' = effect(a, fetches).fetches
    /\ UNCHANGED <<corpusVars, evalCall, lastCall, firstCall, ncalls, response,
                   harnessVars>>

\* a scenario card is clicked; clicking the current one renders nothing anew
SetScenario(s) ==
    /\ Open
    /\ s # app.scenario
    /\ Len(fetches) < MaxFetches
    /\ LET a == [app EXCEPT !.scenario = s]
       IN  /\ app' = effect(a, fetches).app
           /\ fetches' = effect(a, fetches).fetches
    /\ UNCHANGED <<corpusVars, evalCall, lastCall, firstCall, ncalls, response,
                   harnessVars>>

remove(pending, k) == SubSeq(pending, 1, k - 1) \o SubSeq(pending, k + 1, Len(pending))

\* lines 308-311: a request is answered; the requests are answered in any order
FetchSucceeds(k) ==
    /\ Open
    /\ k \in 1..Len(fetches)
    /\ LET data == resourceGroupsOf(fetches[k].subscriptions)
       IN  app' = [app EXCEPT !.availableRGs = data,
                              !.selectedRGs = namesOf(data),
                              !.loadingRGs = FALSE]
    /\ fetches' = remove(fetches, k)
    /\ UNCHANGED <<corpusVars, evalCall, lastCall, firstCall, ncalls, response,
                   harnessVars>>

\* line 311: a request fails; the catch writes the error to the console
FetchFails(k) ==
    /\ Open
    /\ k \in 1..Len(fetches)
    /\ app' = [app EXCEPT !.loadingRGs = FALSE, !.logged = TRUE]
    /\ fetches' = remove(fetches, k)
    /\ UNCHANGED <<corpusVars, evalCall, lastCall, firstCall, ncalls, response,
                   harnessVars>>

InitApp ==
    /\ HarnessIdle
    /\ AppIdle
    /\ loaded = FALSE
    /\ tenantRules = <<>>
    /\ rgRules = <<>>
    /\ subRules = <<>>
    /\ regionRules = <<>>
    /\ rulesData = <<>>
    /\ evalCall = NoCall
    /\ lastCall = NoCall
    /\ firstCall = NoCall
    /\ ncalls = 0
    /\ response = NoCall

NextApp ==
    \/ Mount
    \/ ConnectToAzure
    \/ \E id \in {"A", "B"} : HandleSubToggle(id)
    \/ \E s \in Scenarios : SetScenario(s)
    \/ \E k \in 1..MaxFetches : FetchSucceeds(k)
    \/ \E k \in 1..MaxFetches : FetchFails(k)

SpecApp == InitApp /\ [][NextApp]_vars

\* the selection asks for resource groups
Selecting == Len(app.selectedSubs) > 0 /\ app.scenario # "cross-tenant"

\* C30: resource-group list freshness.  Once every pending fetch has been
\* answered (and none has failed), the available and the pre-selected
\* resource groups are those of the latest selection, and are empty when the
\* latest selection is empty or the scenario is 'cross-tenant': a late
\* answer for an older selection has not overwritten the newer state.
C30_Freshness ==
    (Open /\ Len(app.availableSubs) > 0 /\ fetches = <<>> /\ ~app.logged) =>
        IF Selecting
        THEN /\ app.availableRGs = resourceGroupsOf(app.selectedSubs)
             /\ app.selectedRGs = namesOf(resourceGroupsOf(app.selectedSubs))
        ELSE /\ app.availableRGs = <<>>
             /\ app.selectedRGs = <<>>

=============================================================================
